---- MODULE Spec2Model ----
(***************************************************************************)
(* Renom: the change representation and the apply/revert engine.           *)
(*                                                                         *)
(* The filesystem is a finite tree: a function from the existing paths to  *)
(* nodes.  A path is a sequence of components, a component a sequence of   *)
(* characters, file content a sequence of characters.  The engine of       *)
(* src/engine.rs runs on top of it: execute applies a changeset change by  *)
(* change and pushes (change, revert) pairs on history, revert pops them.  *)
(***************************************************************************)
EXTENDS Integers, Sequences, FiniteSets, TLC

(***************************************************************************)
(* Bounds of the model.                                                    *)
(***************************************************************************)
\* changes handed to Engine::execute over the life of one Engine
MaxChanges == 3

(***************************************************************************)
(* Sequences.                                                              *)
(***************************************************************************)
Range(s) == {s[i] : i \in 1..Len(s)}

IsPrefix(p, q) == Len(p) <= Len(q) /\ SubSeq(q, 1, Len(p)) = p

Reverse(s) == [i \in 1..Len(s) |-> s[Len(s) + 1 - i]]

\* all sequences over S of length at most n
RECURSIVE SeqsUpTo(_, _)
SeqsUpTo(S, n) ==
    IF n = 0 THEN {<<>>}
    ELSE LET shorter == SeqsUpTo(S, n - 1)
         IN  shorter \cup {Append(s, x) : s \in {t \in shorter : Len(t) = n - 1}, x \in S}

(***************************************************************************)
(* Filesystem (std::fs on a POSIX target).                                 *)
(*   f : the tree, a function from existing paths to [dir, data].          *)
(*   The root <<>> is a directory that always exists.                      *)
(***************************************************************************)
DirNode == [dir |-> TRUE, data |-> <<>>]
FileNode(content) == [dir |-> FALSE, data |-> content]

Parent(p) == SubSeq(p, 1, Len(p) - 1)

Exists(f, p) == p = <<>> \/ p \in DOMAIN f
IsDir(f, p) == p = <<>> \/ (p \in DOMAIN f /\ f[p].dir)
IsFile(f, p) == p # <<>> /\ p \in DOMAIN f /\ ~f[p].dir

\* the entries directly inside directory d
Children(f, d) == {p \in DOMAIN f : Len(p) = Len(d) + 1 /\ IsPrefix(d, p)}

\* the paths at or below p
Subtree(f, p) == {q \in DOMAIN f : IsPrefix(p, q)}

\* io::Error values, by what err.to_string() prints of them: the text of the
\* operating system's or the library's error; it names no path and no change
NoError == <<>>
NotFound == <<"NotFound">>
IsADirectory == <<"IsADirectory">>
NotADirectory == <<"NotADirectory">>
DirectoryNotEmpty == <<"DirectoryNotEmpty">>
InvalidInput == <<"InvalidInput">>
InvalidData == <<"InvalidData">>
\* io::Error::new(io::ErrorKind::Other, p) of an ini parse error
ParseError == <<"Parse">>

\* the error of opening p for writing
OpenError(f, p) ==
    IF p = <<>> \/ ~Exists(f, Parent(p)) THEN NotFound
    ELSE IF ~IsDir(f, Parent(p)) THEN NotADirectory
    ELSE IsADirectory

\* a byte that is not part of any UTF-8 encoding
BadByte == "\\xFF"
IsUtf8(content) == BadByte \notin Range(content)

\* std::fs::read_to_string: the file must exist, be a regular file and hold UTF-8
fs_read_to_string(f, p) ==
    IF ~Exists(f, p) THEN [ok |-> FALSE, val |-> <<>>, err |-> NotFound]
    ELSE IF IsDir(f, p) THEN [ok |-> FALSE, val |-> <<>>, err |-> IsADirectory]
    ELSE IF ~IsUtf8(f[p].data) THEN [ok |-> FALSE, val |-> <<>>, err |-> InvalidData]
    ELSE [ok |-> TRUE, val |-> f[p].data, err |-> NoError]

\* std::fs::write: creates or truncates the file; the parent must be a directory
fs_write(f, p, content) ==
    IF p # <<>> /\ IsDir(f, Parent(p)) /\ ~IsDir(f, p)
    THEN [ok |-> TRUE, err |-> NoError,
          fs |-> [q \in DOMAIN f \cup {p} |-> IF q = p THEN FileNode(content) ELSE f[q]]]
    ELSE [ok |-> FALSE, fs |-> f, err |-> OpenError(f, p)]

\* std::fs::copy: copies the bytes of a regular file onto `to`
fs_copy(f, from, to) ==
    IF IsFile(f, from) /\ to # <<>> /\ IsDir(f, Parent(to)) /\ ~IsDir(f, to)
    THEN [ok |-> TRUE, err |-> NoError,
          fs |-> [q \in DOMAIN f \cup {to} |-> IF q = to THEN FileNode(f[from].data) ELSE f[q]]]
    ELSE [ok |-> FALSE, fs |-> f,
          err |-> IF ~Exists(f, from) THEN NotFound
                  ELSE IF IsDir(f, from) THEN InvalidInput
                  ELSE OpenError(f, to)]

\* std::fs::rename = rename(2): an existing file at `to` is replaced, an
\* existing directory at `to` is replaced only when it is empty and `from` is
\* a directory; the whole subtree moves with `from`
fs_rename(f, from, to) ==
    LET moved == Subtree(f, from)
        kept == (DOMAIN f \ moved) \ {to}
        Rebase(q) == to \o SubSeq(q, Len(from) + 1, Len(q))
        target == kept \cup {Rebase(q) : q \in moved}
        Origin(q) == from \o SubSeq(q, Len(to) + 1, Len(q))
    IN  IF \/ from = <<>> \/ to = <<>>
           \/ from \notin DOMAIN f
           \/ ~Exists(f, Parent(to))
        THEN [ok |-> FALSE, fs |-> f, err |-> NotFound]
        ELSE IF ~IsDir(f, Parent(to))
        THEN [ok |-> FALSE, fs |-> f, err |-> NotADirectory]
        ELSE IF from = to
        THEN [ok |-> TRUE, fs |-> f, err |-> NoError]
        ELSE IF IsPrefix(from, to)
        THEN [ok |-> FALSE, fs |-> f, err |-> InvalidInput]
        ELSE IF f[from].dir /\ Exists(f, to) /\ ~f[to].dir
        THEN [ok |-> FALSE, fs |-> f, err |-> NotADirectory]
        ELSE IF f[from].dir /\ Exists(f, to) /\ Children(f, to) # {}
        THEN [ok |-> FALSE, fs |-> f, err |-> DirectoryNotEmpty]
        ELSE IF ~f[from].dir /\ IsDir(f, to)
        THEN [ok |-> FALSE, fs |-> f, err |-> IsADirectory]
        ELSE [ok |-> TRUE, err |-> NoError,
              fs |-> [q \in target |-> IF q \in kept THEN f[q] ELSE f[Origin(q)]]]

(***************************************************************************)
(* Regular expressions (regex crate), restricted to literal patterns: a    *)
(* pattern is a sequence of characters matched verbatim; a pattern holding *)
(* an unclosed "(" does not compile.  Replacements are literal text.       *)
(***************************************************************************)
\* Regex::new(pattern).is_ok()
RegexValid(pat) == "(" \notin Range(pat)

MatchesAt(content, pat, i) ==
    /\ i + Len(pat) - 1 <= Len(content)
    /\ SubSeq(content, i, i + Len(pat) - 1) = pat

\* Regex::replace_all: every non-overlapping match, left to right, is
\* replaced; the text inserted is not scanned again.  An empty pattern
\* matches once before every character and once at the end.
RECURSIVE ReplaceFrom(_, _, _, _)
ReplaceFrom(content, pat, rep, i) ==
    IF i > Len(content)
    THEN (IF pat = <<>> THEN rep ELSE <<>>)
    ELSE IF MatchesAt(content, pat, i)
    THEN IF pat = <<>>
         THEN rep \o <<content[i]>> \o ReplaceFrom(content, pat, rep, i + 1)
         ELSE rep \o ReplaceFrom(content, pat, rep, i + Len(pat))
    ELSE <<content[i]>> \o ReplaceFrom(content, pat, rep, i + 1)

\* mutant: Regex::replace, which replaces the first match only
replace_first(content, pat, rep) ==
    LET starts == {i \in 1 .. Len(content) + 1 : MatchesAt(content, pat, i)}
        first == CHOOSE i \in starts : \A j \in starts : i <= j
    IN  IF starts = {} THEN content
        ELSE SubSeq(content, 1, first - 1) \o rep
                \o SubSeq(content, first + Len(pat), Len(content))

replace_all(content, pat, rep) == ReplaceFrom(content, pat, rep, 1)

(***************************************************************************)
(* SHA-256 as a file name.  The digest is modelled as an injection of the  *)
(* content: the marker "#" followed by the content itself.  No path of a   *)
(* change has a component that starts with "#".                            *)
(***************************************************************************)
Sha256Hex(content) == <<"#">> \o content

(***************************************************************************)
(* INI documents (rust-ini crate, as used through Ini::load_from_file,     *)
(* with_section().set(), section_mut().append(), with_section().delete()   *)
(* and write_to_file).                                                     *)
(*   A document is a sequence of sections [gen, name, props]; the general  *)
(*   (unnamed) section has gen = TRUE; props is a sequence of [k, v] in    *)
(*   file order, a key may repeat.                                         *)
(***************************************************************************)
NL == "\n"
Quote == "\""

\* the lines of a text, without their terminators
RECURSIVE SplitLines(_, _, _)
SplitLines(content, i, cur) ==
    IF i > Len(content)
    THEN (IF cur = <<>> THEN <<>> ELSE <<cur>>)
    ELSE IF content[i] = NL
    THEN <<cur>> \o SplitLines(content, i + 1, <<>>)
    ELSE SplitLines(content, i + 1, Append(cur, content[i]))

\* position of the first occurrence of character c in line, 0 when absent
FirstIndex(line, c) ==
    IF c \in Range(line)
    THEN CHOOSE i \in 1..Len(line) : line[i] = c /\ \A j \in 1..(i - 1) : line[j] # c
    ELSE 0

\* a value written between double quotes is read without them
Unquote(v) ==
    IF Len(v) >= 2 /\ v[1] = Quote /\ v[Len(v)] = Quote
    THEN SubSeq(v, 2, Len(v) - 1)
    ELSE v

GeneralSection == [gen |-> TRUE, name |-> <<>>, props |-> <<>>]
NamedSection(name) == [gen |-> FALSE, name |-> name, props |-> <<>>]

\* index of the section in the document, 0 when absent (Some(name) lookup)
SectionIndex(doc, name) ==
    IF \E i \in 1..Len(doc) : ~doc[i].gen /\ doc[i].name = name
    THEN CHOOSE i \in 1..Len(doc) : ~doc[i].gen /\ doc[i].name = name
    ELSE 0

\* Properties::append: one more value at the end, the others untouched
PropsAppend(props, k, v) == Append(props, [k |-> k, v |-> v])

\* Properties::remove: every value of the key goes
PropsRemove(props, k) == SelectSeq(props, LAMBDA e : e.k # k)

\* Properties::insert: the key keeps the single value v
PropsInsert(props, k, v) == Append(PropsRemove(props, k), [k |-> k, v |-> v])

\* Ini::with_section(Some(name)).set(k, v): the section is created if absent
IniSet(doc, name, k, v) ==
    LET i == SectionIndex(doc, name)
    IN  IF i = 0
        THEN Append(doc, [NamedSection(name) EXCEPT !.props = <<[k |-> k, v |-> v]>>])
        ELSE [doc EXCEPT ![i].props = PropsInsert(@, k, v)]

\* Ini::with_section(Some(name)).delete(k)
IniDelete(doc, name, k) ==
    LET i == SectionIndex(doc, name)
    IN  IF i = 0 THEN doc ELSE [doc EXCEPT ![i].props = PropsRemove(@, k)]

\* Ini::section_mut(Some(name)).map(|s| s.append(k, v)); found = FALSE is None
IniSectionAppend(doc, name, k, v) ==
    LET i == SectionIndex(doc, name)
    IN  IF i = 0
        THEN [found |-> FALSE, doc |-> doc]
        ELSE [found |-> TRUE, doc |-> [doc EXCEPT ![i].props = PropsAppend(@, k, v)]]

\* the parser: "[name]" opens a section, "k=v" adds a value to the current
\* section, empty lines and comment lines are skipped, anything else is a
\* parse error
RECURSIVE ParseLines(_, _, _, _)
ParseLines(lines, n, doc, cur) ==
    IF n > Len(lines) THEN [ok |-> TRUE, doc |-> doc]
    ELSE LET line == lines[n]
             eq == FirstIndex(line, "=")
         IN  IF line = <<>> \/ line[1] \in {";", "#"}
             THEN ParseLines(lines, n + 1, doc, cur)
             ELSE IF line[1] = "["
             THEN IF line[Len(line)] # "]"
                  THEN [ok |-> FALSE, doc |-> doc]
                  ELSE LET name == SubSeq(line, 2, Len(line) - 1)
                           i == SectionIndex(doc, name)
                       IN  IF i = 0
                           THEN ParseLines(lines, n + 1, Append(doc, NamedSection(name)), Len(doc) + 1)
                           ELSE ParseLines(lines, n + 1, doc, i)
             ELSE IF eq <= 1
             THEN [ok |-> FALSE, doc |-> doc]
             ELSE LET k == SubSeq(line, 1, eq - 1)
                      v == Unquote(SubSeq(line, eq + 1, Len(line)))
                  IN  ParseLines(lines, n + 1,
                                 [doc EXCEPT ![cur].props = PropsAppend(@, k, v)], cur)

\* Ini::load_from_str on the text of the file
IniParse(content) == ParseLines(SplitLines(content, 1, <<>>), 1, <<GeneralSection>>, 1)

RECURSIVE WriteProps(_, _)
WriteProps(props, n) ==
    IF n > Len(props) THEN <<>>
    ELSE props[n].k \o <<"=">> \o props[n].v \o <<NL>> \o WriteProps(props, n + 1)

\* Ini::write_to: sections in order, a blank line between two sections, the
\* header of a named section, then one "k=v" line per value
RECURSIVE WriteSections(_, _, _)
WriteSections(doc, n, first) ==
    IF n > Len(doc) THEN <<>>
    ELSE LET s == doc[n]
             shown == ~s.gen \/ s.props # <<>>
         IN  (IF shown /\ ~first THEN <<NL>> ELSE <<>>)
             \o (IF s.gen THEN <<>> ELSE <<"[">> \o s.name \o <<"]", NL>>)
             \o WriteProps(s.props, 1)
             \o WriteSections(doc, n + 1, first /\ ~shown)

IniWrite(doc) == WriteSections(doc, 1, TRUE)

(***************************************************************************)
(* Changes (src/changes): pure data, one record shape for the four         *)
(* variants; the fields a variant does not have are empty.                 *)
(*   RenameFile    {from, to}                                              *)
(*   ReplaceInFile {path, from (pattern), to (replacement)}                *)
(*   SetIniEntry / AppendIniEntry {path, section, key, value}              *)
(***************************************************************************)
RenameFile(from, to) ==
    [kind |-> "RenameFile", from |-> from, to |-> to, path |-> <<>>,
     pat |-> <<>>, rep |-> <<>>, section |-> <<>>, key |-> <<>>, value |-> <<>>]

ReplaceInFile(path, from, to) ==
    [kind |-> "ReplaceInFile", from |-> <<>>, to |-> <<>>, path |-> path,
     pat |-> from, rep |-> to, section |-> <<>>, key |-> <<>>, value |-> <<>>]

SetIniEntry(path, section, key, value) ==
    [kind |-> "SetIniEntry", from |-> <<>>, to |-> <<>>, path |-> path,
     pat |-> <<>>, rep |-> <<>>, section |-> section, key |-> key, value |-> value]

AppendIniEntry(path, section, key, value) ==
    [kind |-> "AppendIniEntry", from |-> <<>>, to |-> <<>>, path |-> path,
     pat |-> <<>>, rep |-> <<>>, section |-> section, key |-> key, value |-> value]

EditKinds == {"ReplaceInFile", "SetIniEntry", "AppendIniEntry"}

\* impl Display for Change: the words the text of a change starts with
Display(change) ==
    IF change.kind = "RenameFile" THEN "rename file"
    ELSE IF change.kind = "ReplaceInFile" THEN "replace"
    ELSE IF change.kind = "SetIniEntry" THEN "set"
    ELSE "append"

(***************************************************************************)
(* Revert actions: the closures of engine.rs capture two paths; a value    *)
(* [kind, src, dst] stands for `rename(src, dst)` or `copy(src, dst)`.     *)
(***************************************************************************)
ReverseRename(after, before) == [kind |-> "rename", src |-> after, dst |-> before]
RestoreFromBackup(before, after) == [kind |-> "copy", src |-> before, dst |-> after]

\* mutant: the backup is moved onto the target instead of being copied
InvokeRevertByMove(f, rv) ==
    fs_rename(f, rv.src, rv.dst)

\* calling the closure
InvokeRevert(f, rv) ==
    IF rv.kind = "rename" THEN fs_rename(f, rv.src, rv.dst) ELSE fs_copy(f, rv.src, rv.dst)

NoRevert == [kind |-> "none", src |-> <<>>, dst |-> <<>>]

Ok(f, rv) == [st |-> "Ok", fs |-> f, revert |-> rv, err |-> NoError]
Err(f, e) == [st |-> "Err", fs |-> f, revert |-> NoRevert, err |-> e]
Panic(f) == [st |-> "Panic", fs |-> f, revert |-> NoRevert, err |-> NoError]

(***************************************************************************)
(* The per-variant functions of engine.rs.                                 *)
(***************************************************************************)
\* mutant: the path of the backup is returned but nothing is written there
backup_file_unwritten(f, file, bdir) ==
    LET content == fs_read_to_string(f, file)
        path == Append(bdir, Sha256Hex(content.val))
    IN  IF ~content.ok THEN [ok |-> FALSE, fs |-> f, path |-> <<>>, err |-> content.err]
        ELSE [ok |-> TRUE, fs |-> f, path |-> path, err |-> NoError]

\* mutant: the backup is named after the file, not after its content
backup_file_by_name(f, file, bdir) ==
    LET content == fs_read_to_string(f, file)
        path == Append(bdir, <<"#">> \o file[Len(file)])
        written == fs_write(f, path, content.val)
    IN  IF ~content.ok THEN [ok |-> FALSE, fs |-> f, path |-> <<>>, err |-> content.err]
        ELSE IF ~written.ok THEN [ok |-> FALSE, fs |-> f, path |-> <<>>, err |-> written.err]
        ELSE [ok |-> TRUE, fs |-> written.fs, path |-> path, err |-> NoError]

\* mutant: the backup directory is emptied before the backup is written
backup_file_clearing(f, file, bdir) ==
    LET content == fs_read_to_string(f, file)
        path == Append(bdir, Sha256Hex(content.val))
        cleared == [q \in DOMAIN f \ Children(f, bdir) |-> f[q]]
        written == fs_write(cleared, path, content.val)
    IN  IF ~content.ok THEN [ok |-> FALSE, fs |-> f, path |-> <<>>, err |-> content.err]
        ELSE IF ~written.ok THEN [ok |-> FALSE, fs |-> f, path |-> <<>>, err |-> written.err]
        ELSE [ok |-> TRUE, fs |-> written.fs, path |-> path, err |-> NoError]

\* backup_file: read the file as text, write it under its digest
backup_file(f, file, bdir) ==
    LET content == fs_read_to_string(f, file)
        path == Append(bdir, Sha256Hex(content.val))
        written == fs_write(f, path, content.val)
    IN  IF ~content.ok THEN [ok |-> FALSE, fs |-> f, path |-> <<>>, err |-> content.err]
        ELSE IF ~written.ok THEN [ok |-> FALSE, fs |-> f, path |-> <<>>, err |-> written.err]
        ELSE [ok |-> TRUE, fs |-> written.fs, path |-> path, err |-> NoError]

\* mutant: the result of std::fs::rename is dropped
rename_file_unchecked(f, params) ==
    LET r == fs_rename(f, params.from, params.to)
    IN  Ok(r.fs, ReverseRename(params.to, params.from))

rename_file(f, params) ==
    LET r == fs_rename(f, params.from, params.to)
    IN  IF r.ok THEN Ok(r.fs, ReverseRename(params.to, params.from)) ELSE Err(f, r.err)

\* mutant: the closure copies the target onto the backup
replace_in_file_swapped(f, params, before) ==
    LET content == fs_read_to_string(f, params.path)
        written == fs_write(f, params.path, replace_all(content.val, params.pat, params.rep))
    IN  IF ~content.ok THEN Err(f, content.err)
        ELSE IF ~RegexValid(params.pat) THEN Panic(f)
        ELSE IF ~written.ok THEN Err(f, written.err)
        ELSE Ok(written.fs, RestoreFromBackup(params.path, before))

\* mutant: a pattern that does not compile is returned as an error
replace_in_file_propagating(f, params, before) ==
    LET content == fs_read_to_string(f, params.path)
        written == fs_write(f, params.path, replace_all(content.val, params.pat, params.rep))
    IN  IF ~content.ok THEN Err(f, content.err)
        ELSE IF ~RegexValid(params.pat) THEN Err(f, InvalidInput)
        ELSE IF ~written.ok THEN Err(f, written.err)
        ELSE Ok(written.fs, RestoreFromBackup(before, params.path))

\* replace_in_file after its backup_file call returned `before`
replace_in_file_rest(f, params, before) ==
    LET content == fs_read_to_string(f, params.path)
        written == fs_write(f, params.path, replace_all(content.val, params.pat, params.rep))
    IN  IF ~content.ok THEN Err(f, content.err)
        ELSE IF ~RegexValid(params.pat) THEN Panic(f)
        ELSE IF ~written.ok THEN Err(f, written.err)
        ELSE Ok(written.fs, RestoreFromBackup(before, params.path))

\* mutant: a file that does not parse is taken for an empty document
load_from_file_lenient(f, p) ==
    LET content == fs_read_to_string(f, p)
        ini == IniParse(content.val)
    IN  IF ~content.ok THEN [ok |-> FALSE, doc |-> <<>>, err |-> content.err]
        ELSE [ok |-> TRUE, doc |-> IF ini.ok THEN ini.doc ELSE <<GeneralSection>>,
              err |-> NoError]

\* Ini::load_from_file: an io error or a parse error
load_from_file(f, p) ==
    LET content == fs_read_to_string(f, p)
        ini == IniParse(content.val)
    IN  IF ~content.ok THEN [ok |-> FALSE, doc |-> <<>>, err |-> content.err]
        ELSE [ok |-> ini.ok, doc |-> ini.doc, err |-> IF ini.ok THEN NoError ELSE ParseError]

\* mutant: the value is appended to the values of the key instead of replacing them
set_ini_entry_appending(f, params, before) ==
    LET ini == load_from_file(f, params.path)
        appended == IniSectionAppend(ini.doc, params.section, params.key, params.value)
        doc == IF appended.found THEN appended.doc
               ELSE IniSet(ini.doc, params.section, params.key, params.value)
        written == fs_write(f, params.path, IniWrite(doc))
    IN  IF ~ini.ok THEN Err(f, ini.err)
        ELSE IF ~written.ok THEN Err(f, written.err)
        ELSE Ok(written.fs, RestoreFromBackup(before, params.path))

\* set_ini_entry after its backup_file call returned `before`
set_ini_entry_rest(f, params, before) ==
    LET ini == load_from_file(f, params.path)
        doc == IniSet(ini.doc, params.section, params.key, params.value)
        written == fs_write(f, params.path, IniWrite(doc))
    IN  IF ~ini.ok THEN Err(f, ini.err)
        ELSE IF ~written.ok THEN Err(f, written.err)
        ELSE Ok(written.fs, RestoreFromBackup(before, params.path))

\* the placeholder key "dummy"
Dummy == <<"d", "u", "m", "m", "y">>

\* append_ini_entry after its backup_file call returned `before`
append_ini_entry_rest(f, params, before) ==
    LET ini == load_from_file(f, params.path)
        created == IniSet(ini.doc, params.section, Dummy, Dummy)
        appended == IniSectionAppend(created, params.section, params.key, params.value)
        doc == IniDelete(appended.doc, params.section, Dummy)
        written == fs_write(f, params.path, IniWrite(doc))
    IN  IF ~ini.ok THEN Err(f, ini.err)
        ELSE IF ~appended.found THEN Panic(f)
        ELSE IF ~written.ok THEN Err(f, written.err)
        ELSE Ok(written.fs, RestoreFromBackup(before, params.path))

\* the part of an editing variant that follows the backup
edit_rest(f, change, before) ==
    IF change.kind = "ReplaceInFile" THEN replace_in_file_rest(f, change, before)
    ELSE IF change.kind = "SetIniEntry" THEN set_ini_entry_rest(f, change, before)
    ELSE append_ini_entry_rest(f, change, before)

\* the match of execute_single: the whole apply of one change
apply(f, change, bdir) ==
    IF change.kind = "RenameFile" THEN rename_file(f, change)
    ELSE LET b == backup_file(f, change.path, bdir)
         IN  IF ~b.ok THEN Err(f, b.err) ELSE edit_rest(b.fs, change, b.path)

(***************************************************************************)
(* The universe of the model: one project root P with three files and the  *)
(* backup directory inside the root, which the caller is expected to have  *)
(* created but which execute takes as given.                               *)
(***************************************************************************)
P == <<"P">>
Q == <<"Q">>
PathP == <<P>>
PathQ == <<Q>>
Pa == <<P, <<"a">>>>
Pb == <<P, <<"b">>>>
Pc == <<P, <<"c">>>>
\* <root>/.renom/backup
BackupDirs == {<<P, <<".", "r">>>>}

TextX == <<"x">>
TextY == <<"y">>
TextXYX == <<"x", "y", "x">>
Binary == <<BadByte>>
\* [S]
\* k=u
IniText == <<"[", "S", "]", NL, "k", "=", "u", NL>>
SecS == <<"S">>
KeyK == <<"k">>

Changes ==
    { RenameFile(Pa, Pb),
      RenameFile(Pc, Pb),
      RenameFile(PathP, PathQ),
      ReplaceInFile(Pa, TextX, TextY),
      ReplaceInFile(Pb, TextX, TextY),
      ReplaceInFile(Pa, <<"(">>, TextY),
      SetIniEntry(Pc, SecS, KeyK, <<"v">>),
      AppendIniEntry(Pc, SecS, KeyK, <<"w">>) }

\* the project trees an Engine may be started on
Tree(bdir, contentA, hasB, hasBackup) ==
    LET paths == {PathP, Pa, Pc} \cup (IF hasB THEN {Pb} ELSE {})
                     \cup (IF hasBackup THEN {bdir} ELSE {})
    IN  [q \in paths |->
            IF q \in {PathP, bdir} THEN DirNode
            ELSE IF q = Pa THEN FileNode(contentA)
            ELSE IF q = Pb THEN FileNode(TextX)
            ELSE FileNode(IniText)]

InitTrees ==
    [bdir : BackupDirs, contentA : {TextXYX, Binary}, hasB : BOOLEAN, hasBackup : BOOLEAN]

(***************************************************************************)
(* State.                                                                  *)
(***************************************************************************)
VARIABLES
    fs,          \* the filesystem
    history,     \* Engine.history: sequence of [change, revert]
    backup_dir,  \* the backup directory handed to execute
    pc,          \* "idle", "apply" (in the loop of execute), "edit" (inside an
                 \* editing variant, after backup_file), "revert", "aborted"
    changeset,   \* the changeset of the running execute
    next,        \* index in changeset of the change the loop is at
    before,      \* the local `before` of the editing variant under way
    result,      \* what the last execute returned: "none" (not returned yet),
                 \* "Ok", "Err", "Panic"
    error,       \* the String inside the Err the last execute returned
    reverted,    \* revert since the last call of execute: "none" (not called),
                 \* "running", or what the last one returned: "Ok", "Err"
    submitted,   \* changes handed to execute so far
    \* history variables of the verification
    tree0,       \* fs when the running (or last) execute was called
    hist0,       \* history when the running (or last) execute was called
    attempted,   \* indices of the changes execute has called apply on
    histR,       \* history when the running (or last) revert was called
    treeR,       \* fs when the running (or last) revert was called
    invoked,     \* the history entries revert has invoked, in order
    snap,        \* snap[i]: fs just before the apply of history[i]
    snapshotted, \* contents backup_file has stored so far
    \* the caller of the Engine (a rename workflow)
    workflow,    \* the workflow that owns the Engine, "none" for a bare Engine
    wpc,         \* the position of the workflow in its code
    events,      \* what the workflow has printed, asked and called, in order
    context      \* what the workflow gathered to generate its changeset

vars == <<fs, history, backup_dir, pc, changeset, next, before, result, error, reverted,
          submitted, tree0, hist0, attempted, histR, treeR, invoked,
          snap, snapshotted, workflow, wpc, events, context>>

\* the state of the caller, which no method of the Engine touches
caller == <<workflow, wpc, events, context>>

\* Engine::new on some project tree
Init ==
    /\ \E t \in InitTrees :
          /\ fs = Tree(t.bdir, t.contentA, t.hasB, t.hasBackup)
          /\ tree0 = Tree(t.bdir, t.contentA, t.hasB, t.hasBackup)
          /\ treeR = Tree(t.bdir, t.contentA, t.hasB, t.hasBackup)
          /\ backup_dir = t.bdir
    /\ history = <<>>
    /\ pc = "idle"
    /\ changeset = <<>>
    /\ next = 1
    /\ before = <<>>
    /\ result = "none"
    /\ error = NoError
    /\ reverted = "none"
    /\ submitted = 0
    /\ hist0 = <<>>
    /\ attempted = <<>>
    /\ histR = <<>>
    /\ invoked = <<>>
    /\ snap = <<>>
    /\ snapshotted = {}
    /\ workflow = "none"
    /\ wpc = "none"
    /\ events = <<>>
    /\ context = <<>>

(***************************************************************************)
(* Engine::execute                                                         *)
(***************************************************************************)
\* mutant: execute starts from an empty history
ExecuteClearing(cs) ==
    /\ UNCHANGED caller
    /\ pc = "idle"
    /\ pc' = "apply"
    /\ changeset' = cs
    /\ next' = 1
    /\ submitted' = submitted + Len(cs)
    /\ tree0' = fs
    /\ hist0' = history
    /\ attempted' = <<>>
    /\ result' = "none"
    /\ error' = NoError
    /\ reverted' = "none"
    /\ history' = <<>>
    /\ UNCHANGED <<fs, backup_dir, before, histR, treeR, invoked, snap,
                   snapshotted>>

\* the call: the loop starts at the first change
Execute(cs) ==
    /\ UNCHANGED caller
    /\ pc = "idle"
    /\ pc' = "apply"
    /\ changeset' = cs
    /\ next' = 1
    /\ submitted' = submitted + Len(cs)
    /\ tree0' = fs
    /\ hist0' = history
    /\ attempted' = <<>>
    /\ result' = "none"
    /\ error' = NoError
    /\ reverted' = "none"
    /\ UNCHANGED <<fs, history, backup_dir, before, histR, treeR, invoked, snap,
                   snapshotted>>

\* mutant: the new entry is inserted at the front of history
PushFront(change, r) ==
    /\ fs' = r.fs
    /\ history' = <<[change |-> change, revert |-> r.revert]>> \o history
    /\ snap' = IF pc = "edit" THEN snap ELSE Append(snap, fs)
    /\ next' = next + 1
    /\ pc' = "apply"
    /\ before' = <<>>
    /\ UNCHANGED <<result, error>>

\* mutant: the entry is pushed and the loop takes the same change again
PushAgain(change, r) ==
    /\ fs' = r.fs
    /\ history' = Append(history, [change |-> change, revert |-> r.revert])
    /\ snap' = IF pc = "edit" THEN snap ELSE Append(snap, fs)
    /\ next' = next
    /\ pc' = "apply"
    /\ before' = <<>>
    /\ UNCHANGED <<result, error>>

\* execute_single, Ok arm: push and go on with the loop
Push(change, r) ==
    /\ fs' = r.fs
    /\ history' = Append(history, [change |-> change, revert |-> r.revert])
    /\ snap' = IF pc = "edit" THEN snap ELSE Append(snap, fs)
    /\ next' = next + 1
    /\ pc' = "apply"
    /\ before' = <<>>
    /\ UNCHANGED <<result, error>>

\* mutant: the error is recorded but the loop goes on with the next change
FailAndContinue(r) ==
    /\ fs' = r.fs
    /\ result' = "Err"
    /\ error' = r.err
    /\ pc' = "apply"
    /\ before' = <<>>
    /\ snap' = SubSeq(snap, 1, Len(history))
    /\ next' = next + 1
    /\ UNCHANGED history

\* mutant: the failing change is pushed before the error is returned
FailButPush(r) ==
    /\ fs' = r.fs
    /\ result' = "Err"
    /\ error' = r.err
    /\ pc' = "idle"
    /\ before' = <<>>
    /\ snap' = SubSeq(snap, 1, Len(history)) \o <<fs>>
    /\ history' = Append(history, [change |-> changeset[next], revert |-> r.revert])
    /\ UNCHANGED next

\* mutant: the position of the failing change is added to the error text
FailWithPosition(r) ==
    /\ fs' = r.fs
    /\ result' = "Err"
    /\ error' = Append(r.err, ToString(next))
    /\ pc' = "idle"
    /\ before' = <<>>
    /\ snap' = SubSeq(snap, 1, Len(history))
    /\ UNCHANGED <<history, next>>

\* execute_single, Err arm and the `?` of execute: return the error
Fail(r) ==
    /\ fs' = r.fs
    /\ result' = "Err"
    /\ error' = r.err
    /\ pc' = "idle"
    /\ before' = <<>>
    /\ snap' = SubSeq(snap, 1, Len(history))
    /\ UNCHANGED <<history, next>>

\* a panic unwinds out of execute; the Engine is gone
Abort(r) ==
    /\ fs' = r.fs
    /\ result' = "Panic"
    /\ error' = NoError
    /\ pc' = "aborted"
    /\ before' = <<>>
    /\ snap' = SubSeq(snap, 1, Len(history))
    /\ UNCHANGED <<history, next>>

Outcome(change, r) ==
    IF r.st = "Ok" THEN Push(change, r)
    ELSE IF r.st = "Err" THEN Fail(r)
    ELSE Abort(r)

\* one turn of the loop on a RenameFile
ApplyRenameFile ==
    /\ UNCHANGED caller
    /\ pc = "apply"
    /\ next <= Len(changeset)
    /\ changeset[next].kind = "RenameFile"
    /\ attempted' = Append(attempted, next)
    /\ Outcome(changeset[next], rename_file(fs, changeset[next]))
    /\ UNCHANGED <<backup_dir, changeset, reverted, submitted, tree0,
                   hist0, histR, treeR, invoked, snapshotted>>

\* one turn of the loop on an editing variant, up to the return of backup_file
ApplyBackup ==
    /\ UNCHANGED caller
    /\ pc = "apply"
    /\ next <= Len(changeset)
    /\ changeset[next].kind \in EditKinds
    /\ attempted' = Append(attempted, next)
    /\ LET b == backup_file(fs, changeset[next].path, backup_dir)
       IN  IF b.ok
           THEN /\ fs' = b.fs
                /\ before' = b.path
                /\ pc' = "edit"
                /\ snap' = Append(snap, fs)
                /\ snapshotted' = snapshotted \cup {fs[changeset[next].path].data}
                /\ UNCHANGED <<history, next, result, error>>
           ELSE /\ Fail(Err(fs, b.err))
                /\ UNCHANGED snapshotted
    /\ UNCHANGED <<backup_dir, changeset, reverted, submitted, tree0,
                   hist0, histR, treeR, invoked>>

\* the rest of the editing variant and the match of execute_single
ApplyEdit ==
    /\ UNCHANGED caller
    /\ pc = "edit"
    /\ Outcome(changeset[next], edit_rest(fs, changeset[next], before))
    /\ UNCHANGED <<backup_dir, changeset, reverted, submitted, tree0,
                   hist0, attempted, histR, treeR, invoked, snapshotted>>

\* the loop is over: Ok(())
ExecuteReturn ==
    /\ UNCHANGED caller
    /\ pc = "apply"
    /\ next > Len(changeset)
    /\ result' = "Ok"
    /\ pc' = "idle"
    /\ UNCHANGED <<error, fs, history, backup_dir, changeset, next, before, reverted, submitted, tree0, hist0, attempted, histR, treeR, invoked,
                   snap, snapshotted>>

(***************************************************************************)
(* Engine::revert                                                          *)
(***************************************************************************)
RevertCall ==
    /\ UNCHANGED caller
    /\ pc = "idle"
    /\ pc' = "revert"
    /\ histR' = history
    /\ treeR' = fs
    /\ invoked' = <<>>
    /\ reverted' = "running"
    /\ UNCHANGED <<fs, history, backup_dir, changeset, next, before, result, error, submitted, tree0, hist0, attempted, snap, snapshotted>>

\* mutant: the oldest entry is taken first
RevertStepFifo ==
    /\ UNCHANGED caller
    /\ pc = "revert"
    /\ history # <<>>
    /\ LET top == history[1]
           r == InvokeRevert(fs, top.revert)
       IN  /\ history' = SubSeq(history, 2, Len(history))
           /\ snap' = SubSeq(snap, 2, Len(history))
           /\ invoked' = Append(invoked, top)
           /\ fs' = r.fs
           /\ IF r.ok
              THEN UNCHANGED <<pc, reverted>>
              ELSE /\ pc' = "idle"
                   /\ reverted' = "Err"
    /\ UNCHANGED <<backup_dir, changeset, next, before, result, error, submitted,
                   tree0, hist0, attempted, histR, treeR, snapshotted>>

\* mutant: the error of the closure is dropped and the loop goes on
RevertStepIgnoreErr ==
    /\ UNCHANGED caller
    /\ pc = "revert"
    /\ history # <<>>
    /\ LET top == history[Len(history)]
           r == InvokeRevert(fs, top.revert)
       IN  /\ history' = SubSeq(history, 1, Len(history) - 1)
           /\ snap' = SubSeq(snap, 1, Len(history) - 1)
           /\ invoked' = Append(invoked, top)
           /\ fs' = r.fs
           /\ UNCHANGED <<pc, reverted>>
    /\ UNCHANGED <<backup_dir, changeset, next, before, result, error, submitted,
                   tree0, hist0, attempted, histR, treeR, snapshotted>>

\* mutant: a failing closure ends the loop with Ok
RevertStepErrAsOk ==
    /\ UNCHANGED caller
    /\ pc = "revert"
    /\ history # <<>>
    /\ LET top == history[Len(history)]
           r == InvokeRevert(fs, top.revert)
       IN  /\ history' = SubSeq(history, 1, Len(history) - 1)
           /\ snap' = SubSeq(snap, 1, Len(history) - 1)
           /\ invoked' = Append(invoked, top)
           /\ fs' = r.fs
           /\ IF r.ok
              THEN UNCHANGED <<pc, reverted>>
              ELSE /\ pc' = "idle"
                   /\ reverted' = "Ok"
    /\ UNCHANGED <<backup_dir, changeset, next, before, result, error, submitted,
                   tree0, hist0, attempted, histR, treeR, snapshotted>>

\* mutant: the entry is removed only once its closure has succeeded
RevertStepKeepFailed ==
    /\ UNCHANGED caller
    /\ pc = "revert"
    /\ history # <<>>
    /\ LET top == history[Len(history)]
           r == InvokeRevert(fs, top.revert)
       IN  /\ invoked' = Append(invoked, top)
           /\ fs' = r.fs
           /\ IF r.ok
              THEN /\ history' = SubSeq(history, 1, Len(history) - 1)
                   /\ snap' = SubSeq(snap, 1, Len(history) - 1)
                   /\ UNCHANGED <<pc, reverted>>
              ELSE /\ pc' = "idle"
                   /\ reverted' = "Err"
                   /\ UNCHANGED <<history, snap>>
    /\ UNCHANGED <<backup_dir, changeset, next, before, result, error, submitted,
                   tree0, hist0, attempted, histR, treeR, snapshotted>>

\* one turn of the while loop: pop, call the closure, `?`
RevertStep ==
    /\ UNCHANGED caller
    /\ pc = "revert"
    /\ history # <<>>
    /\ LET top == history[Len(history)]
           r == InvokeRevert(fs, top.revert)
       IN  /\ history' = SubSeq(history, 1, Len(history) - 1)
           /\ snap' = SubSeq(snap, 1, Len(history) - 1)
           /\ invoked' = Append(invoked, top)
           /\ fs' = r.fs
           /\ IF r.ok
              THEN UNCHANGED <<pc, reverted>>
              ELSE /\ pc' = "idle"
                   /\ reverted' = "Err"
    /\ UNCHANGED <<backup_dir, changeset, next, before, result, error, submitted,
                   tree0, hist0, attempted, histR, treeR, snapshotted>>

\* history is empty: Ok(())
RevertReturn ==
    /\ UNCHANGED caller
    /\ pc = "revert"
    /\ history = <<>>
    /\ pc' = "idle"
    /\ reverted' = "Ok"
    /\ UNCHANGED <<fs, history, backup_dir, changeset, next, before, result, error, submitted, tree0, hist0, attempted, histR, treeR, invoked,
                   snap, snapshotted>>

\* the changesets the caller may hand to execute now
Changesets ==
    IF pc = "idle" THEN SeqsUpTo(Changes, MaxChanges - submitted) ELSE {}

Next ==
    \/ \E cs \in Changesets : Execute(cs)
    \/ ApplyRenameFile
    \/ ApplyBackup
    \/ ApplyEdit
    \/ ExecuteReturn
    \/ RevertCall
    \/ RevertStep
    \/ RevertReturn

Spec == Init /\ [][Next]_vars

(***************************************************************************)
(* The Engine on one config file: the INI files the editing variants may   *)
(* meet and the entries they may be asked for, one change per changeset.   *)
(***************************************************************************)
SecR == <<"R">>
KeyJ == <<"j">>
\* [S]           [S]           [S]           [S]           [S
\* k=u           j=u           j="z"         dummy=u
\* k=t                         k=u           k=u
IniMany == <<"[", "S", "]", NL, "k", "=", "u", NL, "k", "=", "t", NL>>
IniNone == <<"[", "S", "]", NL, "j", "=", "u", NL>>
IniQuoted == <<"[", "S", "]", NL, "j", "=", Quote, "z", Quote, NL, "k", "=", "u", NL>>
IniDummy == <<"[", "S", "]", NL>> \o Dummy \o <<"=", "u", NL, "k", "=", "u", NL>>
IniBroken == <<"[", "S", NL>>
IniTexts == {IniText, IniMany, IniNone, IniQuoted, IniDummy, IniBroken, Binary}

IniChanges ==
    { SetIniEntry(Pc, SecS, KeyK, <<"v">>),
      SetIniEntry(Pc, SecR, KeyK, <<"v">>),
      AppendIniEntry(Pc, SecS, KeyK, <<"w">>),
      AppendIniEntry(Pc, SecR, KeyK, <<"w">>),
      AppendIniEntry(Pc, SecS, Dummy, <<"w">>),
      ReplaceInFile(Pc, <<"u">>, <<"t">>) }

\* the project root with its backup directory and the config file, if any
IniTree(bdir, hasC, content) ==
    [q \in {PathP, bdir} \cup (IF hasC THEN {Pc} ELSE {}) |->
        IF q = Pc THEN FileNode(content) ELSE DirNode]

IniInitTrees ==
    [bdir : BackupDirs, hasC : {TRUE}, content : IniTexts]
        \cup [bdir : BackupDirs, hasC : {FALSE}, content : {<<>>}]

\* Engine::new on a project that holds one config file
IniInit ==
    /\ \E t \in IniInitTrees :
          /\ fs = IniTree(t.bdir, t.hasC, t.content)
          /\ tree0 = IniTree(t.bdir, t.hasC, t.content)
          /\ treeR = IniTree(t.bdir, t.hasC, t.content)
          /\ backup_dir = t.bdir
    /\ history = <<>>
    /\ pc = "idle"
    /\ changeset = <<>>
    /\ next = 1
    /\ before = <<>>
    /\ result = "none"
    /\ error = NoError
    /\ reverted = "none"
    /\ submitted = 0
    /\ hist0 = <<>>
    /\ attempted = <<>>
    /\ histR = <<>>
    /\ invoked = <<>>
    /\ snap = <<>>
    /\ snapshotted = {}
    /\ workflow = "none"
    /\ wpc = "none"
    /\ events = <<>>
    /\ context = <<>>

\* the caller hands execute one change at a time
IniChangesets ==
    IF pc = "idle" /\ submitted < MaxChanges THEN {<<c>> : c \in IniChanges} ELSE {}

IniNext ==
    \/ \E cs \in IniChangesets : Execute(cs)
    \/ ApplyBackup
    \/ ApplyEdit
    \/ ExecuteReturn
    \/ RevertCall
    \/ RevertStep
    \/ RevertReturn

IniSpec == IniInit /\ [][IniNext]_vars

(***************************************************************************)
(* The rename workflows: each creates one Engine, executes one changeset   *)
(* and, when execute fails, deals with the failure.                        *)
(***************************************************************************)
\* the state of the Engine and of the bookkeeping about it
engine == <<fs, history, backup_dir, pc, changeset, next, before, result, error, reverted,
            submitted, tree0, hist0, attempted, histR, treeR, invoked,
            snap, snapshotted>>

\* the functions that call Engine::execute, by the file that holds them
Workflows ==
    {"director.rs", "rename_project.rs", "rename_project/mod.rs",
     "rename_plugin/mod.rs", "rename_target/mod.rs",
     "rename_module/mod.rs", "rename_module.rs"}

\* the workflows whose Err branch asks the user before it calls revert
\* (request_recover, user_confirms_revert)
AskingWorkflows == Workflows \ {"rename_module/mod.rs", "rename_module.rs"}

\* the workflows that hand the Err of revert on (`?`, ok_or_quit!)
PropagatingWorkflows == Workflows \ {"rename_module.rs"}

WorkflowChanges ==
    {RenameFile(Pa, Pb), RenameFile(Pc, Pb), ReplaceInFile(Pa, TextX, TextY)}

WorkflowChangesets ==
    IF wpc = "execute" /\ pc = "idle" /\ result = "none"
    THEN SeqsUpTo(WorkflowChanges, MaxChanges) ELSE {}

WorkflowInit ==
    /\ \E t \in InitTrees :
          /\ fs = Tree(t.bdir, t.contentA, t.hasB, t.hasBackup)
          /\ tree0 = Tree(t.bdir, t.contentA, t.hasB, t.hasBackup)
          /\ treeR = Tree(t.bdir, t.contentA, t.hasB, t.hasBackup)
          /\ backup_dir = t.bdir
    /\ history = <<>>
    /\ pc = "idle"
    /\ changeset = <<>>
    /\ next = 1
    /\ before = <<>>
    /\ result = "none"
    /\ error = NoError
    /\ reverted = "none"
    /\ submitted = 0
    /\ hist0 = <<>>
    /\ attempted = <<>>
    /\ histR = <<>>
    /\ invoked = <<>>
    /\ snap = <<>>
    /\ snapshotted = {}
    /\ workflow \in Workflows
    /\ wpc = "execute"
    /\ events = <<>>
    /\ context = <<>>

\* execute returned Ok: the success message, and the workflow returns
WorkflowSucceeded ==
    /\ wpc = "execute"
    /\ pc = "idle"
    /\ result = "Ok"
    /\ events' = Append(events, "success")
    /\ wpc' = "returned"
    /\ UNCHANGED <<workflow, context, engine>>

\* execute returned Err: the error is logged; what comes next depends on
\* the workflow
WorkflowFailed ==
    /\ wpc = "execute"
    /\ pc = "idle"
    /\ result = "Err"
    /\ events' = Append(events, "log_error")
    /\ wpc' = IF workflow \in AskingWorkflows THEN "confirm" ELSE "revert"
    /\ UNCHANGED <<workflow, context, engine>>

\* the user is asked whether to revert and answers
WorkflowConfirm(answer) ==
    /\ wpc = "confirm"
    /\ events' = events \o <<"confirm_revert", answer>>
    /\ wpc' = IF answer = "yes" THEN "revert" ELSE "skipped"
    /\ UNCHANGED <<workflow, context, engine>>

\* engine.revert()
WorkflowRevert ==
    /\ wpc = "revert"
    /\ reverted = "none"
    /\ RevertCall

\* revert has returned: its Err is handed on, or the workflow finishes with
\* its failure message (rename_module.rs drops the result of revert and
\* returns the error of execute)
WorkflowReverted ==
    /\ wpc = "revert"
    /\ pc = "idle"
    /\ reverted \in {"Ok", "Err"}
    /\ events' = Append(events,
                        IF reverted = "Err" /\ workflow \in PropagatingWorkflows
                        THEN "revert_error" ELSE "failure")
    /\ wpc' = "returned"
    /\ UNCHANGED <<workflow, context, engine>>

\* the user declined: nothing is reverted
WorkflowSkipped ==
    /\ wpc = "skipped"
    /\ events' = Append(events, "failure")
    /\ wpc' = "returned"
    /\ UNCHANGED <<workflow, context, engine>>

WorkflowNext ==
    \/ \E cs \in WorkflowChangesets : Execute(cs)
    \/ ApplyRenameFile
    \/ ApplyBackup
    \/ ApplyEdit
    \/ ExecuteReturn
    \/ WorkflowSucceeded
    \/ WorkflowFailed
    \/ \E answer \in {"yes", "no"} : WorkflowConfirm(answer)
    \/ WorkflowRevert
    \/ RevertStep
    \/ RevertReturn
    \/ WorkflowReverted
    \/ WorkflowSkipped

WorkflowSpec == WorkflowInit /\ [][WorkflowNext]_vars

(***************************************************************************)
(* The changesets generated for renaming a project, executed on the        *)
(* project they were generated for.  A file name is the sequence of its    *)
(* dot-separated parts: Start.Target.cs is <<"Start", "Target", "cs">>.    *)
(***************************************************************************)
MaxHeaders == 2

\* Path::with_extension: the part after the last dot is replaced, a name
\* without a dot gets the extension added
with_extension(path, ext) ==
    LET name == path[Len(path)]
        stem == IF Len(name) > 1 THEN SubSeq(name, 1, Len(name) - 1) ELSE name
    IN  SubSeq(path, 1, Len(path) - 1) \o <<stem \o ext>>

\* Path::with_file_name
with_file_name(path, name) == SubSeq(path, 1, Len(path) - 1) \o <<name>>

\* format!("{}Editor", name) and the like
Suffixed(name, suffix) == [name EXCEPT ![Len(name)] = @ \o suffix]

\* str::to_uppercase, on the names in use
to_uppercase(name) ==
    [i \in DOMAIN name |->
        CASE name[i] = "Start" -> "START"
          [] name[i] = "Finish" -> "FINISH"
          [] OTHER -> name[i]]

Source == <<"Source">>
ConfigEngine == <<<<"Config">>, <<"DefaultEngine", "ini">>>>
ConfigGame == <<<<"Config">>, <<"DefaultGame", "ini">>>>
\* the pattern of update_redirects_in_engine_config and its replacement,
\* as the literal text of an entry they rewrite
RedirectPattern == <<"OldGameName", "=">>
RedirectReplacement(new) == <<"OldGameName", "=", "$old", "/Script/">> \o new
RedirectValue(old, new) ==
    <<"(", "OldGameName", "=", Quote, "/Script/">> \o old
       \o <<Quote, ",", "NewGameName", "=", Quote, "/Script/">> \o new \o <<Quote, ")">>

replace_in_project_descriptor(root, old, new) ==
    ReplaceInFile(with_extension(root \o <<old>>, <<"uproject">>), old, new)
rename_project_descriptor(root, old, new) ==
    RenameFile(with_extension(root \o <<old>>, <<"uproject">>),
               with_extension(root \o <<new>>, <<"uproject">>))
replace_in_exec_target_file(root, old, new) ==
    ReplaceInFile(with_extension(root \o <<Source, old>>, <<"Target", "cs">>), old, new)
rename_exec_target_file(root, old, new) ==
    RenameFile(with_extension(root \o <<Source, old>>, <<"Target", "cs">>),
               with_extension(root \o <<Source, new>>, <<"Target", "cs">>))
replace_in_ed_target_file(root, old, new) ==
    ReplaceInFile(with_extension(root \o <<Source, Suffixed(old, "Editor")>>,
                                 <<"Target", "cs">>), old, new)
rename_ed_target_file(root, old, new) ==
    RenameFile(with_extension(root \o <<Source, Suffixed(old, "Editor")>>, <<"Target", "cs">>),
               with_extension(root \o <<Source, Suffixed(new, "Editor")>>, <<"Target", "cs">>))
replace_in_mod_build_file(root, old, new) ==
    ReplaceInFile(with_extension(root \o <<Source, old, old>>, <<"Build", "cs">>), old, new)
rename_mod_build_file(root, old, new) ==
    RenameFile(with_extension(root \o <<Source, old, old>>, <<"Build", "cs">>),
               with_extension(root \o <<Source, old, new>>, <<"Build", "cs">>))
replace_api_macro_in_header_file(root, header, old, new) ==
    ReplaceInFile(root \o header, Suffixed(to_uppercase(old), "_API"),
                  Suffixed(to_uppercase(new), "_API"))
rename_mod_header_file(root, old, new) ==
    RenameFile(with_extension(root \o <<Source, old, old>>, <<"h">>),
               with_extension(root \o <<Source, old, new>>, <<"h">>))
replace_in_mod_source_file(root, old, new) ==
    ReplaceInFile(with_extension(root \o <<Source, old, old>>, <<"cpp">>), old, new)
rename_mod_source_file(root, old, new) ==
    RenameFile(with_extension(root \o <<Source, old, old>>, <<"cpp">>),
               with_extension(root \o <<Source, old, new>>, <<"cpp">>))
rename_source_subfolder(root, old, new) ==
    RenameFile(root \o <<Source, old>>, root \o <<Source, new>>)
update_redirects_in_engine_config(root, new) ==
    ReplaceInFile(root \o ConfigEngine, RedirectPattern, RedirectReplacement(new))
append_redirect_to_engine_config(root, old, new) ==
    AppendIniEntry(root \o ConfigEngine, <<"/Script/Engine.Engine">>,
                   <<"+ActiveGameNameRedirects">>, RedirectValue(old, new))
add_game_name_to_engine_config(root, new) ==
    SetIniEntry(root \o ConfigEngine, <<"URL">>, <<"GameName">>, new)
add_project_name_to_game_config(root, new) ==
    SetIniEntry(root \o ConfigGame, <<"/Script/EngineSettings.GeneralProjectSettings">>,
                <<"ProjectName">>, new)
rename_project_root(root, new) == RenameFile(root, with_file_name(root, new))

\* a changeset with the Source-subfolder rename ahead of the changes inside
\* the subfolder
generate_code_changeset_subfolder_first(old, new, root, api_reference_files) ==
    <<replace_in_project_descriptor(root, old, new),
      rename_project_descriptor(root, old, new),
      rename_source_subfolder(root, old, new),
      replace_in_mod_build_file(root, old, new),
      rename_mod_build_file(root, old, new)>>
    \o [i \in DOMAIN api_reference_files |->
          replace_api_macro_in_header_file(root, api_reference_files[i], old, new)]
    \o <<rename_mod_header_file(root, old, new),
         add_game_name_to_engine_config(root, new),
         rename_project_root(root, new)>>
generate_code_changeset(old, new, root, api_reference_files) ==
    <<replace_in_project_descriptor(root, old, new),
      rename_project_descriptor(root, old, new),
      replace_in_exec_target_file(root, old, new),
      rename_exec_target_file(root, old, new),
      replace_in_ed_target_file(root, old, new),
      rename_ed_target_file(root, old, new),
      replace_in_mod_build_file(root, old, new),
      rename_mod_build_file(root, old, new)>>
    \o [i \in DOMAIN api_reference_files |->
          replace_api_macro_in_header_file(root, api_reference_files[i], old, new)]
    \o <<rename_mod_header_file(root, old, new),
         replace_in_mod_source_file(root, old, new),
         rename_mod_source_file(root, old, new),
         rename_source_subfolder(root, old, new),
         update_redirects_in_engine_config(root, new),
         append_redirect_to_engine_config(root, old, new),
         add_game_name_to_engine_config(root, new),
         rename_project_root(root, new)>>

generate_blueprint_changeset(old, new, root) ==
    <<rename_project_descriptor(root, old, new),
      add_game_name_to_engine_config(root, new),
      add_project_name_to_game_config(root, new),
      rename_project_root(root, new)>>

\* the project names and the directory that holds the project
ProjectNames == {<<"Start">>, <<"Finish">>}
ProjectsDir == <<"Projects">>

\* the headers of the game module: the module header and the header of its
\* game mode class
ModuleHeaders(old) ==
    {<<Source, old, old \o <<"h">>>>, <<Source, old, Suffixed(old, "GameModeBase") \o <<"h">>>>}

\* the headers found to use the API macro, in the order of the directory walk
ApiReferenceFiles(old) ==
    {hs \in SeqsUpTo(ModuleHeaders(old), MaxHeaders) :
        \A i, j \in DOMAIN hs : i # j => hs[i] # hs[j]}

\* the layout of an Unreal Engine project named `name` at `root`, with the
\* backup directory the workflow has created
ProjectLayout(root, name, kind) ==
    LET dirs == {SubSeq(root, 1, 1), root, root \o <<Source>>, root \o <<<<"Config">>>>,
                 root \o <<<<".renom">>>>, root \o <<<<".renom">>, <<"backup">>>>}
                \cup (IF kind = "Code" THEN {root \o <<Source, name>>} ELSE {})
        mentions == {root \o <<name \o <<"uproject">>>>}
                \cup (IF kind = "Code"
                      THEN {root \o <<Source, name \o <<"Target", "cs">>>>,
                            root \o <<Source, Suffixed(name, "Editor") \o <<"Target", "cs">>>>,
                            root \o <<Source, name, name \o <<"Build", "cs">>>>,
                            root \o <<Source, name, name \o <<"h">>>>,
                            root \o <<Source, name, name \o <<"cpp">>>>}
                      ELSE {})
        headers == IF kind = "Code"
                   THEN {root \o <<Source, name, Suffixed(name, "GameModeBase") \o <<"h">>>>}
                   ELSE {}
        configs == {root \o ConfigEngine, root \o ConfigGame}
    IN  [q \in dirs \cup mentions \cup headers \cup configs |->
            IF q \in dirs THEN DirNode
            ELSE IF q \in mentions THEN FileNode(name)
            ELSE IF q \in headers THEN FileNode(Suffixed(to_uppercase(name), "_API"))
            ELSE FileNode(IniText)]

\* what the workflow gathers: the project, its type and the new name
Contexts ==
    {[project_root |-> <<ProjectsDir, old>>, project_name |-> old, target_name |-> new,
      project_type |-> kind, api_reference_files |-> hs] :
        old \in ProjectNames, new \in ProjectNames, kind \in {"Blueprint", "Code"},
        hs \in UNION {ApiReferenceFiles(n) : n \in ProjectNames}}

generate_changeset(ctx) ==
    IF ctx.project_type = "Blueprint"
    THEN generate_blueprint_changeset(ctx.project_name, ctx.target_name, ctx.project_root)
    ELSE generate_code_changeset(ctx.project_name, ctx.target_name, ctx.project_root,
                                 ctx.api_reference_files)

ProjectInit ==
    /\ context \in {ctx \in Contexts :
                      /\ ctx.project_name # ctx.target_name
                      /\ ctx.api_reference_files \in
                            IF ctx.project_type = "Code"
                            THEN ApiReferenceFiles(ctx.project_name) ELSE {<<>>}}
    /\ fs = ProjectLayout(context.project_root, context.project_name, context.project_type)
    /\ tree0 = fs
    /\ treeR = fs
    /\ backup_dir = context.project_root \o <<<<".renom">>, <<"backup">>>>
    /\ history = <<>>
    /\ pc = "idle"
    /\ changeset = <<>>
    /\ next = 1
    /\ before = <<>>
    /\ result = "none"
    /\ error = NoError
    /\ reverted = "none"
    /\ submitted = 0
    /\ hist0 = <<>>
    /\ attempted = <<>>
    /\ histR = <<>>
    /\ invoked = <<>>
    /\ snap = <<>>
    /\ snapshotted = {}
    /\ workflow = "rename_project.rs"
    /\ wpc = "execute"
    /\ events = <<>>

ProjectChangesets ==
    IF pc = "idle" /\ result = "none" THEN {generate_changeset(context)} ELSE {}

ProjectNext ==
    \/ \E cs \in ProjectChangesets : Execute(cs)
    \/ ApplyRenameFile
    \/ ApplyBackup
    \/ ApplyEdit
    \/ ExecuteReturn

ProjectSpec == ProjectInit /\ [][ProjectNext]_vars

(***************************************************************************)
(* Change::apply (changes/change.rs): the associated functions of Change,  *)
(* called directly on a change, as tests/ini.rs does.                      *)
(***************************************************************************)
Change_backup_file(f, file, bdir) ==
    LET content == fs_read_to_string(f, file)
    IN  IF ~content.ok THEN [ok |-> FALSE, fs |-> f, path |-> <<>>, err |-> content.err]
        ELSE LET hash == Sha256Hex(content.val)
                 path == bdir \o <<hash>>
                 written == fs_write(f, path, content.val)
             IN  IF written.ok
                 THEN [ok |-> TRUE, fs |-> written.fs, path |-> path, err |-> NoError]
                 ELSE [ok |-> FALSE, fs |-> f, path |-> <<>>, err |-> written.err]

\* mutant: the closure repeats the rename instead of reversing it
Change_rename_file_forward(f, params) ==
    LET from == params.from
        to == params.to
        renamed == fs_rename(f, from, to)
    IN  IF ~renamed.ok THEN Err(f, renamed.err)
        ELSE Ok(renamed.fs, [kind |-> "rename", src |-> from, dst |-> to])

Change_rename_file(f, params) ==
    LET from == params.from
        to == params.to
        renamed == fs_rename(f, from, to)
    IN  IF ~renamed.ok THEN Err(f, renamed.err)
        ELSE Ok(renamed.fs, [kind |-> "rename", src |-> to, dst |-> from])

Change_replace_in_file(f, params, bdir) ==
    LET backup == Change_backup_file(f, params.path, bdir)
        target == params.path
    IN  IF ~backup.ok THEN Err(f, backup.err)
        ELSE LET content == fs_read_to_string(backup.fs, target)
             IN  IF ~content.ok THEN Err(backup.fs, content.err)
                 ELSE IF ~RegexValid(params.pat) THEN Panic(backup.fs)
                 ELSE LET content_after_replace ==
                              replace_all(content.val, params.pat, params.rep)
                          written == fs_write(backup.fs, target, content_after_replace)
                      IN  IF ~written.ok THEN Err(backup.fs, written.err)
                          ELSE Ok(written.fs,
                                  [kind |-> "copy", src |-> backup.path, dst |-> target])

Change_set_ini_entry(f, params, bdir) ==
    LET backup == Change_backup_file(f, params.path, bdir)
        target == params.path
    IN  IF ~backup.ok THEN Err(f, backup.err)
        ELSE LET loaded == load_from_file(backup.fs, target)
             IN  IF ~loaded.ok THEN Err(backup.fs, loaded.err)
                 ELSE LET ini == IniSet(loaded.doc, params.section, params.key, params.value)
                          written == fs_write(backup.fs, target, IniWrite(ini))
                      IN  IF ~written.ok THEN Err(backup.fs, written.err)
                          ELSE Ok(written.fs,
                                  [kind |-> "copy", src |-> backup.path, dst |-> target])

Change_append_ini_entry(f, params, bdir) ==
    LET backup == Change_backup_file(f, params.path, bdir)
        target == params.path
    IN  IF ~backup.ok THEN Err(f, backup.err)
        ELSE LET loaded == load_from_file(backup.fs, target)
             IN  IF ~loaded.ok THEN Err(backup.fs, loaded.err)
                 ELSE LET with_dummy == IniSet(loaded.doc, params.section, Dummy, Dummy)
                          appended == IniSectionAppend(with_dummy, params.section,
                                                       params.key, params.value)
                      IN  IF ~appended.found THEN Panic(backup.fs)
                          ELSE LET ini == IniDelete(appended.doc, params.section, Dummy)
                                   written == fs_write(backup.fs, params.path, IniWrite(ini))
                               IN  IF ~written.ok THEN Err(backup.fs, written.err)
                                   ELSE Ok(written.fs,
                                           [kind |-> "copy", src |-> backup.path,
                                            dst |-> target])

Change_apply(f, change, bdir) ==
    CASE change.kind = "RenameFile" -> Change_rename_file(f, change)
      [] change.kind = "ReplaceInFile" -> Change_replace_in_file(f, change, bdir)
      [] change.kind = "SetIniEntry" -> Change_set_ini_entry(f, change, bdir)
      [] change.kind = "AppendIniEntry" -> Change_append_ini_entry(f, change, bdir)

\* the changes applied directly, on the trees of both universes; `history`
\* holds the Revert values the caller got back and has not called yet
ChangeChanges ==
    Changes \cup {AppendIniEntry(Pc, SecR, KeyK, <<"w">>), AppendIniEntry(Pc, SecS, Dummy, <<"w">>)}

ChangeInit == Init \/ IniInit

\* let revert = change.apply(&backup_dir)
ChangeApply(c) ==
    /\ submitted < MaxChanges - 1
    /\ LET r == Change_apply(fs, c, backup_dir)
       IN  /\ fs' = r.fs
           /\ result' = r.st
           /\ error' = r.err
           /\ history' = IF r.st = "Ok"
                         THEN Append(history, [change |-> c, revert |-> r.revert])
                         ELSE history
           /\ snap' = IF r.st = "Ok" THEN Append(snap, fs) ELSE snap
    /\ changeset' = <<c>>
    /\ attempted' = <<1>>
    /\ tree0' = fs
    /\ hist0' = history
    /\ submitted' = submitted + 1
    /\ reverted' = "none"
    /\ UNCHANGED <<backup_dir, pc, next, before, histR, treeR, invoked, snapshotted, caller>>

\* revert(): the caller calls the Revert it got last
ChangeRevert ==
    /\ history # <<>>
    /\ LET top == history[Len(history)]
           r == InvokeRevert(fs, top.revert)
       IN  /\ fs' = r.fs
           /\ reverted' = IF r.ok THEN "Ok" ELSE "Err"
           /\ invoked' = Append(invoked, top)
    /\ history' = SubSeq(history, 1, Len(history) - 1)
    /\ snap' = SubSeq(snap, 1, Len(history) - 1)
    /\ histR' = history
    /\ treeR' = fs
    /\ UNCHANGED <<backup_dir, pc, changeset, next, before, result, error, submitted,
                   tree0, hist0, attempted, snapshotted, caller>>

\* revert() once more: a Revert is a Fn and can be called again
ChangeRevertAgain ==
    /\ reverted \in {"Ok", "Err"}
    /\ LET r == InvokeRevert(fs, invoked[Len(invoked)].revert)
       IN  /\ fs' = r.fs
           /\ reverted' = IF r.ok THEN "OkAgain" ELSE "ErrAgain"
    /\ treeR' = fs
    /\ UNCHANGED <<history, backup_dir, pc, changeset, next, before, result, error,
                   submitted, tree0, hist0, attempted, histR, invoked, snap, snapshotted,
                   caller>>

ChangeNext ==
    \/ \E c \in ChangeChanges : ChangeApply(c)
    \/ ChangeRevert
    \/ ChangeRevertAgain

ChangeSpec == ChangeInit /\ [][ChangeNext]_vars

(***************************************************************************)
(* The Engine on one text file: the texts ReplaceInFile may meet, with     *)
(* patterns that match several times, overlap themselves, match nowhere    *)
(* or are empty, and replacements that hold the pattern again.             *)
(***************************************************************************)
MaxLen == 3

ReplaceTexts == SeqsUpTo({"x", "y"}, MaxLen)
ReplacePatterns == {<<"x">>, <<"x", "x">>, <<"x", "y">>, <<"z">>, <<>>}
ReplaceReplacements == {<<"y">>, <<"x", "x">>, <<>>}

ReplaceChanges ==
    {ReplaceInFile(Pa, pat, rep) : pat \in ReplacePatterns, rep \in ReplaceReplacements}

ReplaceTree(bdir, content) ==
    [q \in {PathP, Pa, bdir} |-> IF q = Pa THEN FileNode(content) ELSE DirNode]

ReplaceInit ==
    /\ \E bdir \in BackupDirs, content \in ReplaceTexts :
          /\ fs = ReplaceTree(bdir, content)
          /\ tree0 = ReplaceTree(bdir, content)
          /\ treeR = ReplaceTree(bdir, content)
          /\ backup_dir = bdir
    /\ history = <<>>
    /\ pc = "idle"
    /\ changeset = <<>>
    /\ next = 1
    /\ before = <<>>
    /\ result = "none"
    /\ error = NoError
    /\ reverted = "none"
    /\ submitted = 0
    /\ hist0 = <<>>
    /\ attempted = <<>>
    /\ histR = <<>>
    /\ invoked = <<>>
    /\ snap = <<>>
    /\ snapshotted = {}
    /\ workflow = "none"
    /\ wpc = "none"
    /\ events = <<>>
    /\ context = <<>>

ReplaceChangesets ==
    IF pc = "idle" /\ submitted = 0 THEN {<<c>> : c \in ReplaceChanges} ELSE {}

ReplaceNext ==
    \/ \E cs \in ReplaceChangesets : Execute(cs)
    \/ ApplyBackup
    \/ ApplyEdit
    \/ ExecuteReturn

ReplaceSpec == ReplaceInit /\ [][ReplaceNext]_vars

(***************************************************************************)
(* Vocabulary of the properties.                                           *)
(***************************************************************************)
\* the project tree: everything outside the backup directory
ProjectTree(f) ==
    [q \in {r \in DOMAIN f : ~(IsPrefix(backup_dir, r) /\ r # backup_dir)} |-> f[q]]

\* the outcome of applying cs[n] after cs[1..n-1] were applied one after the
\* other, all successfully, starting from tree f
RECURSIVE Run(_, _, _)
Run(f, cs, n) ==
    IF n = 0 THEN Ok(f, NoRevert)
    ELSE apply(Run(f, cs, n - 1).fs, cs[n], backup_dir)

AllOk(f, cs, n) == \A i \in 1..n : Run(f, cs, i).st = "Ok"

FirstN(n) == [i \in 1..n |-> i]

\* execute has returned and revert was not called since
ExecuteReturned == result \in {"Ok", "Err"} /\ reverted = "none"

\* the number of changes the last execute applied successfully
Applied == IF result = "Ok" THEN Len(attempted) ELSE Len(attempted) - 1

(***************************************************************************)
(* C1  Halt-on-failure.  When execute returns an error at change ck, the   *)
(* changes c1..c(k-1) were applied one after the other, in order, the      *)
(* project tree is the one they produce, ck left every project file as it  *)
(* was, and no change after ck was attempted.                              *)
(***************************************************************************)
C1_HaltOnFailure ==
    (result = "Err" /\ reverted = "none") =>
        LET k == Len(attempted)
        IN  /\ k >= 1 /\ k <= Len(changeset)
            /\ attempted = FirstN(k)
            /\ AllOk(tree0, changeset, k - 1)
            /\ Run(tree0, changeset, k).st = "Err"
            /\ fs = Run(tree0, changeset, k).fs
            /\ ProjectTree(fs) = ProjectTree(Run(tree0, changeset, k - 1).fs)

\* an execute that failed at the second of three changes after changing the tree
C1_Witness ==
    /\ result = "Err" /\ reverted = "none"
    /\ Len(attempted) = 2
    /\ Len(changeset) = 3
    /\ ProjectTree(fs) # ProjectTree(tree0)

(***************************************************************************)
(* C2  Rollback to the original state.  When execute on a fresh Engine     *)
(* failed, and revert then undid every applied change and returned Ok, the *)
(* project tree is the tree execute was called on.                         *)
(***************************************************************************)
C2_RollbackRestoresTree ==
    (/\ result = "Err"
     /\ hist0 = <<>>
     /\ reverted = "Ok"
     /\ Len(invoked) = Len(attempted) - 1)
        => ProjectTree(fs) = ProjectTree(tree0)

(***************************************************************************)
(* C3  LIFO revert ordering.  The entries revert has invoked so far are    *)
(* the newest entries of the history it started with, newest first, and    *)
(* what is left of history is the untouched older part.  After             *)
(* [RenameFile(A, B), ReplaceInFile(B, x, y)] on a fresh Engine the first  *)
(* action invoked restores B from its backup, the second renames B back:   *)
(* A ends with the original content and B does not exist.                  *)
(***************************************************************************)
RenameThenReplace == <<RenameFile(Pa, Pb), ReplaceInFile(Pb, TextX, TextY)>>

ChangesOf(h) == [i \in 1..Len(h) |-> h[i].change]

C3_LifoRevert ==
    /\ reverted # "none" => invoked \o Reverse(history) = Reverse(histR)
    /\ (reverted # "none" /\ hist0 = <<>> /\ ChangesOf(histR) = RenameThenReplace) =>
          /\ Len(invoked) >= 1 => invoked[1].revert.kind = "copy"
          /\ Len(invoked) = 1 =>
                /\ Pa \notin DOMAIN fs
                /\ fs[Pb] = tree0[Pa]
          /\ Len(invoked) = 2 =>
                /\ invoked[2].revert.kind = "rename"
                /\ Pb \notin DOMAIN fs
                /\ fs[Pa] = tree0[Pa]
          /\ reverted \in {"running", "Ok"}
          /\ reverted = "Ok" => Len(invoked) = 2

\* revert has returned Ok after undoing the rename and the replacement, which
\* had changed the content of B
C3_Witness ==
    /\ reverted = "Ok"
    /\ hist0 = <<>>
    /\ ChangesOf(histR) = RenameThenReplace
    /\ treeR[Pb] # tree0[Pa]
    /\ fs[Pa] = tree0[Pa]

(***************************************************************************)
(* C4  ReplaceInFile round trip.  Whenever the revert action of a          *)
(* ReplaceInFile entry is invoked and succeeds, the file at its path holds *)
(* exactly the content it had just before that ReplaceInFile was applied.  *)
(***************************************************************************)
Top == history[Len(history)]

C4_ReplaceRoundTrip ==
    [][ (/\ pc = "revert"
         /\ history # <<>>
         /\ Top.change.kind = "ReplaceInFile"
         /\ pc' = "revert")
            => /\ IsFile(fs', Top.change.path)
               /\ fs'[Top.change.path] = snap[Len(history)][Top.change.path] ]_vars

\* the revert action of the replacement applied last has been invoked first,
\* and it brought back a content the replacement had changed
C4_Witness ==
    /\ pc = "revert"
    /\ Len(invoked) = 1
    /\ invoked[1].change.kind = "ReplaceInFile"
    /\ fs[invoked[1].change.path] # treeR[invoked[1].change.path]
    /\ fs[invoked[1].change.path].data = TextXYX

(***************************************************************************)
(* C5  Backup precedes mutation.  While execute is applying a              *)
(* ReplaceInFile, SetIniEntry or AppendIniEntry, every step that changes   *)
(* the target starts in a state where backup_file has returned and the     *)
(* backup entry, inside the backup directory, holds the content the target *)
(* still has; a step in which backup_file fails leaves the target alone,   *)
(* pushes nothing and makes execute return the error.                      *)
(***************************************************************************)
\* the entry at path p differs between the two states of a step
Changed(p) ==
    \/ (p \in DOMAIN fs) # (p \in DOMAIN fs')
    \/ (p \in DOMAIN fs /\ p \in DOMAIN fs' /\ fs[p] # fs'[p])

C5_BackupPrecedesMutation ==
    [][ (/\ pc \in {"apply", "edit"}
         /\ next <= Len(changeset)
         /\ changeset[next].kind \in EditKinds)
            => LET path == changeset[next].path
               IN  /\ Changed(path) =>
                        /\ pc = "edit"
                        /\ IsFile(fs, before)
                        /\ Parent(before) = backup_dir
                        /\ IsFile(fs, path)
                        /\ fs[before].data = fs[path].data
                   /\ (pc = "apply" /\ pc' # "edit") =>
                        /\ ~Changed(path)
                        /\ result' = "Err"
                        /\ history' = history ]_vars

\* a SetIniEntry has just rewritten its target, whose former content is in
\* the backup entry
C5_Witness ==
    /\ pc = "apply"
    /\ history # <<>>
    /\ Top.change.kind = "SetIniEntry"
    /\ fs[Top.change.path] # snap[Len(history)][Top.change.path]
    /\ fs[Top.revert.src] = snap[Len(history)][Top.change.path]

(***************************************************************************)
(* C6  Backup idempotence and content addressing.  As long as the backup   *)
(* directory is in place, it holds exactly one entry per distinct content  *)
(* backup_file has stored, whatever file the content came from and however *)
(* often it was stored, and that entry holds that content.                 *)
(***************************************************************************)
BackupEntries(f) == Children(f, backup_dir)

C6_BackupContentAddressed ==
    IsDir(fs, backup_dir) =>
        /\ Cardinality(BackupEntries(fs)) = Cardinality(snapshotted)
        /\ \A c \in snapshotted :
              Cardinality({e \in BackupEntries(fs) : fs[e] = FileNode(c)}) = 1

\* the same content was stored from two different target files (P/b, undone
\* since, and P/a) and the backup directory holds one entry
C6_Witness ==
    /\ IsDir(fs, backup_dir)
    /\ Cardinality(BackupEntries(fs)) = 1
    /\ history # <<>>
    /\ \E i \in 1..Len(invoked) :
          /\ invoked[i].revert.kind = "copy"
          /\ Top.revert.kind = "copy"
          /\ invoked[i].revert.src = Top.revert.src
          /\ invoked[i].revert.dst # Top.revert.dst

(***************************************************************************)
(* C7  History is a stack in application order.  Until revert is called,   *)
(* history is the history execute started with followed by the changes of  *)
(* the changeset applied so far, in changeset order; from then on it is a  *)
(* prefix of the history revert started with.  A step either leaves        *)
(* history alone, or execute appends the change it just applied at the     *)
(* end, or revert removes the last entry.                                  *)
(***************************************************************************)
Front(h) == SubSeq(h, 1, Len(h) - 1)

C7_HistoryIsStack ==
    /\ [](/\ reverted = "none" =>
                ChangesOf(history) = ChangesOf(hist0) \o SubSeq(changeset, 1, next - 1)
          /\ reverted # "none" => history = SubSeq(histR, 1, Len(history)))
    /\ [][ \/ history' = history
           \/ /\ pc \in {"apply", "edit"}
              /\ history' # <<>>
              /\ Front(history') = history
              /\ history'[Len(history')].change = changeset[next]
           \/ /\ pc = "revert"
              /\ history # <<>>
              /\ history' = Front(history) ]_vars

\* three different changes were applied in order and revert has removed the
\* last one
C7_Witness ==
    /\ pc = "revert"
    /\ Len(invoked) = 1
    /\ Len(history) = 2
    /\ ChangesOf(history) = SubSeq(changeset, 1, 2)
    /\ history[1].change # history[2].change
    /\ invoked[1].change = changeset[3]

(***************************************************************************)
(* C8  One history entry per successful apply.  When execute has returned, *)
(* history is the history it started with followed by one pair per change  *)
(* whose apply succeeded, each holding that change and its revert action   *)
(* (the reverse rename, or the copy of a backup entry onto the path), and  *)
(* nothing for the change that failed or for the changes after it.         *)
(***************************************************************************)
\* the revert action undoes this change
RevertMatches(e) ==
    IF e.change.kind = "RenameFile"
    THEN e.revert = ReverseRename(e.change.to, e.change.from)
    ELSE /\ e.revert.kind = "copy"
         /\ e.revert.dst = e.change.path
         /\ Parent(e.revert.src) = backup_dir

C8_OneEntryPerApply ==
    ExecuteReturned =>
        /\ Len(history) = Len(hist0) + Applied
        /\ SubSeq(history, 1, Len(hist0)) = hist0
        /\ \A i \in 1..Applied :
              /\ history[Len(hist0) + i].change = changeset[i]
              /\ RevertMatches(history[Len(hist0) + i])
              /\ Run(tree0, changeset, i).st = "Ok"
        /\ result = "Ok" => Applied = Len(changeset)
        /\ result = "Err" => Run(tree0, changeset, Applied + 1).st = "Err"

\* execute failed at the third change: two entries were pushed
C8_Witness ==
    /\ ExecuteReturned
    /\ result = "Err"
    /\ Applied = 2
    /\ Len(history) = 2
    /\ history[1].revert.kind # history[2].revert.kind

(***************************************************************************)
(* C9  Revert stops at its first failure.  The step in which a revert      *)
(* action fails makes revert return the error at once: the entry is the    *)
(* last one invoked, the filesystem is as the failing action found it, the *)
(* older entries are all still in history, and nothing more is invoked or  *)
(* written while that result stands.                                       *)
(***************************************************************************)
C9_RevertStopsAtFirstFailure ==
    /\ [](reverted = "Err" =>
            /\ pc = "idle"
            /\ invoked # <<>>
            /\ history = SubSeq(histR, 1, Len(histR) - Len(invoked))
            /\ ~InvokeRevert(fs, invoked[Len(invoked)].revert).ok)
    /\ [][ (pc = "revert" /\ history # <<>> /\ ~InvokeRevert(fs, Top.revert).ok) =>
              /\ reverted' = "Err"
              /\ pc' = "idle"
              /\ fs' = fs
              /\ history' = Front(history)
              /\ invoked' = Append(invoked, Top) ]_vars
    /\ [][ (reverted = "Err" /\ reverted' = "Err") =>
              /\ fs' = fs
              /\ history' = history
              /\ invoked' = invoked ]_vars

\* revert undid one entry, failed on the next and left an older one in history
C9_Witness ==
    /\ reverted = "Err"
    /\ Len(invoked) = 2
    /\ Len(history) = 1
    /\ fs # treeR

(***************************************************************************)
(* C10  Successful revert empties history.  When revert has returned Ok,   *)
(* history is empty and every entry it started with was invoked, newest    *)
(* first.  Called on an empty history (a new Engine or one reverted        *)
(* before) it returns Ok in one step that invokes nothing and writes       *)
(* nothing.                                                                *)
(***************************************************************************)
C10_RevertOkEmptiesHistory ==
    /\ [](reverted = "Ok" =>
            /\ pc = "idle"
            /\ history = <<>>
            /\ invoked = Reverse(histR)
            /\ histR = <<>> => fs = treeR)
    /\ [][ (pc = "revert" /\ history = <<>>) =>
              /\ reverted' = "Ok"
              /\ fs' = fs
              /\ history' = <<>>
              /\ invoked' = invoked ]_vars

\* a run of two changes was reverted, and a second revert, on the history
\* left empty, has returned Ok
C10_Witness ==
    /\ reverted = "Ok"
    /\ hist0 = <<>>
    /\ histR = <<>>
    /\ invoked = <<>>
    /\ result = "Ok"
    /\ Len(changeset) = 2

DocOf(f, path) == IniParse(f[path].data).doc

HasSection(doc, sec) == SectionIndex(doc, sec) # 0

\* the values of key in section sec, in order
ValuesOf(doc, sec, key) ==
    LET i == SectionIndex(doc, sec)
        sel == IF i = 0 THEN <<>> ELSE SelectSeq(doc[i].props, LAMBDA e : e.k = key)
    IN  [j \in 1..Len(sel) |-> sel[j].v]

\* the keys of section sec
KeysOf(doc, sec) ==
    LET i == SectionIndex(doc, sec)
    IN  IF i = 0 THEN {} ELSE {doc[i].props[j].k : j \in 1..Len(doc[i].props)}

\* execute has applied its one change, of the given kind, and nothing has
\* touched the tree since
AppliedOne(kind) ==
    /\ result = "Ok"
    /\ reverted = "none"
    /\ Len(changeset) = 1
    /\ changeset[1].kind = kind

(***************************************************************************)
(* C12  SetIniEntry semantics.  After a successful SetIniEntry(path,        *)
(* section, key, value) the section exists and key has exactly the one     *)
(* value `value` in it, whatever number of values it had there before.     *)
(***************************************************************************)
C12_SetSingleValue ==
    AppliedOne("SetIniEntry") =>
        LET c == changeset[1]
            after == DocOf(fs, c.path)
        IN  /\ HasSection(after, c.section)
            /\ ValuesOf(after, c.section, c.key) = <<c.value>>

\* the key had two values before the set
C12_Witness ==
    /\ AppliedOne("SetIniEntry")
    /\ Len(ValuesOf(DocOf(tree0, changeset[1].path), changeset[1].section,
                     changeset[1].key)) = 2

(***************************************************************************)
(* C13  AppendIniEntry preserves prior values.  After a successful         *)
(* AppendIniEntry(path, section, key, value) the values of key in section  *)
(* are the values it had before, in the same order, followed by `value`;   *)
(* a section that was absent is created and holds exactly that one entry.  *)
(***************************************************************************)
C13_AppendPreservesValues ==
    AppliedOne("AppendIniEntry") =>
        LET c == changeset[1]
            old == DocOf(tree0, c.path)
            after == DocOf(fs, c.path)
        IN  /\ ValuesOf(after, c.section, c.key)
                  = Append(ValuesOf(old, c.section, c.key), c.value)
            /\ ~HasSection(old, c.section) =>
                  after[SectionIndex(after, c.section)].props
                      = <<[k |-> c.key, v |-> c.value]>>

\* the entries of a config file as its lines spell them: section, key and
\* the text after "=", quotes included
RECURSIVE RawEntries(_, _, _)
RawEntries(lines, n, sec) ==
    IF n > Len(lines) THEN <<>>
    ELSE LET line == lines[n]
             eq == FirstIndex(line, "=")
         IN  IF line = <<>> \/ (eq = 0 /\ line[1] # "[")
             THEN RawEntries(lines, n + 1, sec)
             ELSE IF line[1] = "["
             THEN RawEntries(lines, n + 1, SubSeq(line, 2, Len(line) - 1))
             ELSE <<[s |-> sec, k |-> SubSeq(line, 1, eq - 1),
                     v |-> SubSeq(line, eq + 1, Len(line))]>>
                  \o RawEntries(lines, n + 1, sec)

\* the value texts of key in section sec, in order, in the file at path
RawValues(f, path, sec, key) ==
    LET all == RawEntries(SplitLines(f[path].data, 1, <<>>), 1, <<>>)
        sel == SelectSeq(all, LAMBDA e : e.s = sec /\ e.k = key)
    IN  [j \in 1..Len(sel) |-> sel[j].v]

\* the (section, key) pairs of the file at path
RawKeys(f, path) ==
    LET all == RawEntries(SplitLines(f[path].data, 1, <<>>), 1, <<>>)
    IN  {<<all[j].s, all[j].k>> : j \in 1..Len(all)}

(***************************************************************************)
(* C14  INI edits leave untouched entries unchanged.  After SetIniEntry or *)
(* AppendIniEntry on (section, key), every entry of the file in another    *)
(* section or under another key has the same value text as before, its     *)
(* double quotes included.                                                 *)
(***************************************************************************)
C14_UntouchedEntriesKeepText ==
    (AppliedOne("SetIniEntry") \/ AppliedOne("AppendIniEntry")) =>
        LET c == changeset[1]
        IN  \A e \in RawKeys(tree0, c.path) \cup RawKeys(fs, c.path) :
                e # <<c.section, c.key>> =>
                    RawValues(fs, c.path, e[1], e[2]) = RawValues(tree0, c.path, e[1], e[2])

(***************************************************************************)
(* C15  AppendIniEntry does not disturb the target section.  Every key of  *)
(* the target section, the key named like the placeholder "dummy"          *)
(* included, has afterwards the values it had before, followed by the      *)
(* appended value when it is the appended key.                             *)
(***************************************************************************)
C15_AppendKeepsSection ==
    AppliedOne("AppendIniEntry") =>
        LET c == changeset[1]
            old == DocOf(tree0, c.path)
            after == DocOf(fs, c.path)
        IN  \A k \in KeysOf(old, c.section) \cup {c.key} :
                ValuesOf(after, c.section, k)
                    = ValuesOf(old, c.section, k)
                          \o (IF k = c.key THEN <<c.value>> ELSE <<>>)

(***************************************************************************)
(* C16  RenameFile on a missing source.  Applying RenameFile(from, to)     *)
(* when `from` does not exist returns an io error, leaves the filesystem   *)
(* unchanged, pushes nothing onto history and makes execute stop with that *)
(* error.                                                                  *)
(***************************************************************************)
RenameOfMissingSource ==
    /\ pc = "apply"
    /\ next <= Len(changeset)
    /\ changeset[next].kind = "RenameFile"
    /\ ~Exists(fs, changeset[next].from)

C16_RenameMissingSource ==
    [][ RenameOfMissingSource =>
            /\ fs' = fs
            /\ history' = history
            /\ pc' = "idle"
            /\ result' = "Err"
            /\ error' = NotFound
            /\ next' = next ]_vars

\* execute stopped at a rename whose source is missing, after it had applied
\* a change, with changes left in the changeset
C16_Witness ==
    /\ result = "Err"
    /\ reverted = "none"
    /\ error = NotFound
    /\ changeset[next].kind = "RenameFile"
    /\ ~Exists(fs, changeset[next].from)
    /\ Exists(fs, Parent(changeset[next].to))
    /\ Len(history) = 1
    /\ next = 2
    /\ Len(changeset) = 3

(***************************************************************************)
(* C17  RenameFile onto an occupied target.  Applying RenameFile(from, to) *)
(* when an entry already exists at `to` fails with an io error and leaves  *)
(* both `from` and the entry at `to` untouched.                            *)
(***************************************************************************)
RenameOntoOccupied ==
    /\ pc = "apply"
    /\ next <= Len(changeset)
    /\ changeset[next].kind = "RenameFile"
    /\ Exists(fs, changeset[next].from)
    /\ Exists(fs, changeset[next].to)

C17_RenameOntoOccupiedFails ==
    [][ RenameOntoOccupied =>
            /\ fs' = fs
            /\ history' = history
            /\ result' = "Err"
            /\ error' # NoError ]_vars

(***************************************************************************)
(* C18  Side effects of one apply are confined.  One apply changes at most *)
(* the change's own target (the content at `path`, or the location of the  *)
(* entry moved from `from` to `to`) and, for the three editing variants,   *)
(* at most one backup entry; RenameFile writes no backup entry; every      *)
(* other file of the project tree and every other backup entry is          *)
(* unchanged.                                                              *)
(***************************************************************************)
\* the paths at which trees f and g differ
DiffPaths(f, g) ==
    {q \in DOMAIN f \cup DOMAIN g :
        q \notin DOMAIN f \/ q \notin DOMAIN g \/ f[q] # g[q]}

BackupStore(f) ==
    {<<q[Len(q)], f[q].data>> :
        q \in {r \in DOMAIN f : /\ Len(r) >= 2
                                 /\ ~f[r].dir
                                 /\ r[Len(r) - 1] = backup_dir[Len(backup_dir)]}}

C19_BackupsArePermanent ==
    [][ /\ BackupStore(fs) \subseteq BackupStore(fs')
        /\ pc = "revert" => BackupStore(fs') = BackupStore(fs) ]_vars

\* revert has restored a file from its backup and the backup is still there
C19_Witness ==
    /\ reverted = "Ok"
    /\ \E i \in 1..Len(invoked) :
          /\ invoked[i].revert.kind = "copy"
          /\ IsFile(fs, invoked[i].revert.src)
          /\ IsFile(fs, invoked[i].revert.dst)
          /\ fs[invoked[i].revert.dst] = fs[invoked[i].revert.src]
          /\ treeR[invoked[i].revert.dst] # fs[invoked[i].revert.dst]

(***************************************************************************)
(* C20  Apply failures are error values and do not touch the target.  When *)
(* ReplaceInFile targets a missing or non-UTF-8 file, or SetIniEntry or    *)
(* AppendIniEntry targets a missing or malformed INI file, apply returns   *)
(* an error and does not abort, the target is byte for byte what it was,   *)
(* no history entry is pushed and execute returns that error.              *)
(***************************************************************************)
Missing(f, path) == ~Exists(f, path)
NotUtf8(f, path) == IsFile(f, path) /\ ~IsUtf8(f[path].data)
Malformed(f, path) == IsFile(f, path) /\ IsUtf8(f[path].data) /\ ~IniParse(f[path].data).ok

BadTarget(f, c) ==
    \/ c.kind = "ReplaceInFile" /\ (Missing(f, c.path) \/ NotUtf8(f, c.path))
    \/ c.kind \in {"SetIniEntry", "AppendIniEntry"}
          /\ (Missing(f, c.path) \/ Malformed(f, c.path))

C20_ApplyFailureIsErrorValue ==
    [][ (/\ pc \in {"apply", "edit"}
         /\ next <= Len(changeset)
         /\ BadTarget(fs, changeset[next])) =>
            /\ ~Changed(changeset[next].path)
            /\ history' = history
            /\ pc' \in {"edit", "idle"}
            /\ pc = "edit" => pc' = "idle"
            /\ pc' = "idle" =>
                  /\ result' = "Err"
                  /\ error' # NoError
                  /\ next' = next ]_vars

\* execute has returned the parse error of a malformed INI file, which is
\* still what it was
C20_Witness ==
    /\ result = "Err"
    /\ reverted = "none"
    /\ error = ParseError
    /\ changeset[next].kind = "SetIniEntry"
    /\ Malformed(fs, changeset[next].path)
    /\ fs[changeset[next].path] = tree0[changeset[next].path]
    /\ history = hist0

(***************************************************************************)
(* C21  Invalid regex is fatal, not propagated (as claimed): applying a    *)
(* ReplaceInFile whose pattern is not a valid regular expression aborts    *)
(* the run instead of returning an error; at the abort the target has not  *)
(* been written and the changes applied before remain applied, with no     *)
(* revert performed.                                                       *)
(***************************************************************************)
InvalidRegexAtHand ==
    /\ pc \in {"apply", "edit"}
    /\ next <= Len(changeset)
    /\ changeset[next].kind = "ReplaceInFile"
    /\ ~RegexValid(changeset[next].pat)

C21_InvalidRegexAborts ==
    [][ InvalidRegexAtHand =>
            /\ ~Changed(changeset[next].path)
            /\ history' = history
            /\ result' # "Err"
            /\ pc' \in {"edit", "aborted"}
            /\ pc = "edit" => (pc' = "aborted" /\ result' = "Panic") ]_vars

(***************************************************************************)
(* C21  (amended) The abort happens where the pattern is compiled, after   *)
(* backup_file and the read of the target: when the target can be backed   *)
(* up, the apply aborts the run, the target is not written, history is     *)
(* unchanged and nothing runs afterwards, so no revert is performed; when  *)
(* the backup fails (target missing or not UTF-8, backup directory not     *)
(* writable) the apply returns that io error and the pattern is never      *)
(* compiled.                                                               *)
(***************************************************************************)
C21_InvalidRegexAbortsAfterBackup ==
    [][ /\ pc # "aborted"
        /\ InvalidRegexAtHand =>
              /\ ~Changed(changeset[next].path)
              /\ history' = history
              /\ reverted' = reverted
              /\ pc = "apply" =>
                    LET b == backup_file(fs, changeset[next].path, backup_dir)
                    IN  IF b.ok THEN pc' = "edit" /\ result' = "none"
                        ELSE pc' = "idle" /\ result' = "Err" /\ error' = b.err
              /\ pc = "edit" =>
                    /\ pc' = "aborted"
                    /\ result' = "Panic"
                    /\ fs' = fs ]_vars

\* the run was aborted by the second change of a changeset whose first change
\* had been applied and stays applied
C21_Witness ==
    /\ pc = "aborted"
    /\ result = "Panic"
    /\ next = 2
    /\ Len(history) = 1
    /\ hist0 = <<>>
    /\ reverted = "none"
    /\ ProjectTree(fs) # ProjectTree(tree0)

(***************************************************************************)
(* C22: in every rename workflow, when execute returns an error the        *)
(* workflow first reports it, then asks the user whether to revert, and    *)
(* revert runs only if the user accepts; when revert itself fails, that    *)
(* failure is handed to the caller; revert is never called after a         *)
(* successful execute and never more than once in one run.                 *)
(***************************************************************************)
RevertIsCalled == reverted # "running" /\ reverted' = "running"

C22_CallerProtocol ==
    [][/\ RevertIsCalled =>
            /\ result = "Err"
            /\ reverted = "none"
            /\ events = <<"log_error", "confirm_revert", "yes">>
       /\ (wpc' = "returned" /\ reverted = "Err") =>
            events'[Len(events')] = "revert_error"]_vars

\* a workflow that reverts without having asked
C22_RevertUnasked ==
    /\ reverted # "none"
    /\ "confirm_revert" \notin Range(events)

\* a workflow that has returned after a failed revert without handing the
\* failure on
C22_RevertFailureDropped ==
    /\ wpc = "returned"
    /\ reverted = "Err"
    /\ "revert_error" \notin Range(events)

(***************************************************************************)
(* C23: generate_code_changeset and generate_blueprint_changeset return    *)
(* their changes in the documented order: every edit of a file comes       *)
(* before any rename that moves the file or a directory above it, the      *)
(* rename of the Source subfolder comes after every change addressed       *)
(* inside the subfolder, and the rename of the project root is the last    *)
(* change; executed in order on a standard project layout, every change    *)
(* finds its path.                                                         *)
(***************************************************************************)
\* the path a change addresses
Addressed(change) == IF change.kind = "RenameFile" THEN change.from ELSE change.path

EditsPrecedeRenames(cs) ==
    \A i, j \in DOMAIN cs :
        (i < j /\ cs[i].kind = "RenameFile" /\ cs[j].kind \in EditKinds)
            => ~IsPrefix(cs[i].from, cs[j].path)

SubfolderRenameFollows(cs, subfolder) ==
    \A i, j \in DOMAIN cs :
        (cs[i].kind = "RenameFile" /\ cs[i].from = subfolder
            /\ IsPrefix(subfolder, Addressed(cs[j])) /\ Addressed(cs[j]) # subfolder)
            => j < i

\* tests::code_changeset_is_correct and tests::blueprint_changeset_is_correct
code_changeset_expected ==
    <<ReplaceInFile(<<<<"Start", "uproject">>>>, <<"Start">>, <<"Finish">>),
      RenameFile(<<<<"Start", "uproject">>>>, <<<<"Finish", "uproject">>>>),
      ReplaceInFile(<<Source, <<"Start", "Target", "cs">>>>, <<"Start">>, <<"Finish">>),
      RenameFile(<<Source, <<"Start", "Target", "cs">>>>,
                 <<Source, <<"Finish", "Target", "cs">>>>),
      ReplaceInFile(<<Source, <<"StartEditor", "Target", "cs">>>>, <<"Start">>, <<"Finish">>),
      RenameFile(<<Source, <<"StartEditor", "Target", "cs">>>>,
                 <<Source, <<"FinishEditor", "Target", "cs">>>>),
      ReplaceInFile(<<Source, <<"Start">>, <<"Start", "Build", "cs">>>>,
                    <<"Start">>, <<"Finish">>),
      RenameFile(<<Source, <<"Start">>, <<"Start", "Build", "cs">>>>,
                 <<Source, <<"Start">>, <<"Finish", "Build", "cs">>>>),
      ReplaceInFile(<<Source, <<"Start">>, <<"StartGameModeBase", "h">>>>,
                    <<"START_API">>, <<"FINISH_API">>),
      RenameFile(<<Source, <<"Start">>, <<"Start", "h">>>>,
                 <<Source, <<"Start">>, <<"Finish", "h">>>>),
      ReplaceInFile(<<Source, <<"Start">>, <<"Start", "cpp">>>>, <<"Start">>, <<"Finish">>),
      RenameFile(<<Source, <<"Start">>, <<"Start", "cpp">>>>,
                 <<Source, <<"Start">>, <<"Finish", "cpp">>>>),
      RenameFile(<<Source, <<"Start">>>>, <<Source, <<"Finish">>>>),
      ReplaceInFile(ConfigEngine, RedirectPattern, RedirectReplacement(<<"Finish">>)),
      AppendIniEntry(ConfigEngine, <<"/Script/Engine.Engine">>,
                     <<"+ActiveGameNameRedirects">>,
                     RedirectValue(<<"Start">>, <<"Finish">>)),
      SetIniEntry(ConfigEngine, <<"URL">>, <<"GameName">>, <<"Finish">>),
      RenameFile(<<>>, <<<<"Finish">>>>)>>

blueprint_changeset_expected ==
    <<RenameFile(<<<<"Start", "uproject">>>>, <<<<"Finish", "uproject">>>>),
      SetIniEntry(ConfigEngine, <<"URL">>, <<"GameName">>, <<"Finish">>),
      SetIniEntry(ConfigGame, <<"/Script/EngineSettings.GeneralProjectSettings">>,
                  <<"ProjectName">>, <<"Finish">>),
      RenameFile(<<>>, <<<<"Finish">>>>)>>

ExecuteIsCalled == pc = "idle" /\ pc' = "apply"

C24_HistoryAccumulates ==
    /\ [][ExecuteIsCalled => history' = history]_vars
    /\ [](ExecuteReturned =>
            /\ SubSeq(history, 1, Len(hist0)) = hist0
            /\ ChangesOf(history) = ChangesOf(hist0) \o SubSeq(changeset, 1, Applied))
    /\ [][RevertIsCalled => histR' = history /\ history' = history]_vars
    /\ [](reverted # "none" =>
            invoked = Reverse(SubSeq(histR, Len(history) + 1, Len(histR))))
    /\ [](reverted = "Ok" => history = <<>> /\ invoked = Reverse(histR))

\* two runs, the first of them failed after one change, were undone by one
\* revert that began with the entry of the second run
C24_Witness ==
    /\ reverted = "Ok"
    /\ Len(hist0) = 1
    /\ Len(histR) = 2
    /\ result = "Ok"
    /\ submitted = 3
    /\ invoked = <<histR[2], hist0[1]>>
    /\ histR[2].change = changeset[1]

(***************************************************************************)
(* C25: a failed revert action loses its history entry.  revert removes    *)
(* an entry before it invokes the entry's action; when the action fails    *)
(* the entry is gone while the files are as the failed call found them (the *)
(* change is still applied); a second revert does not retry it and goes on *)
(* with the next older entry.                                              *)
(***************************************************************************)
RevertActionFails == pc = "revert" /\ history # <<>> /\ ~InvokeRevert(fs, Top.revert).ok

C25_FailedRevertLosesEntry ==
    /\ [][RevertActionFails =>
            /\ history' = Front(history)
            /\ invoked' = Append(invoked, Top)
            /\ fs' = fs
            /\ reverted' = "Err"
            /\ pc' = "idle"]_vars
    /\ [][(RevertIsCalled /\ reverted = "Err") =>
            /\ histR' = SubSeq(histR, 1, Len(histR) - Len(invoked))
            /\ history' = histR'
            /\ invoked' = <<>>]_vars
    /\ []((reverted # "none" /\ invoked # <<>>) => invoked[1] = histR[Len(histR)])

\* three changes were applied; the action of the second failed in a first
\* revert (P/b had been moved away), and a second revert began with the entry
\* of the first change, restored P/a from its backup and returned Ok, while
\* P/c still holds what the second change had moved
C25_Witness ==
    /\ reverted = "Ok"
    /\ result = "Ok"
    /\ hist0 = <<>>
    /\ Len(changeset) = 3
    /\ Len(histR) = 1
    /\ invoked = histR
    /\ histR[1].change = changeset[1]
    /\ changeset[2] = RenameFile(Pa, Pb)
    /\ Exists(fs, Pa)
    /\ Exists(tree0, Pa)
    /\ fs[Pa] = tree0[Pa]
    /\ ~Exists(fs, Pb)

(***************************************************************************)
(* C26: backups inside a renamed root stay reachable for revert.  When the *)
(* backup directory lies inside the directory that the last change of the  *)
(* changeset renames, a revert after the whole changeset was applied still *)
(* restores every edited file: the rename is undone first, so every        *)
(* restore-from-backup action finds the backup at its recorded path; when  *)
(* the changes before the rename are all edits, revert returns Ok with the *)
(* project tree as it was before the run.                                  *)
(***************************************************************************)
\* revert was called on the entries of a wholly applied changeset that ends
\* with the rename of the project root, which holds the backup directory
RootRenamedLast ==
    /\ reverted # "none"
    /\ result = "Ok"
    /\ hist0 = <<>>
    /\ changeset # <<>>
    /\ ChangesOf(histR) = changeset
    /\ changeset[Len(changeset)] = RenameFile(PathP, PathQ)
    /\ IsPrefix(PathP, backup_dir)

Agree(f, change, bdir) ==
    LET e == apply(f, change, bdir)
        a == Change_apply(f, change, bdir)
    IN  /\ e.st = a.st
        /\ e.err = a.err
        /\ e.fs = a.fs
        /\ e.st = "Ok" =>
              /\ InvokeRevert(e.fs, e.revert) = InvokeRevert(a.fs, a.revert)
              /\ InvokeRevert(f, e.revert) = InvokeRevert(f, a.revert)

C27_EngineAgreesWithChangeApply ==
    /\ \A c \in ChangeChanges : Agree(fs, c, backup_dir)
    /\ (changeset # <<>> /\ reverted = "none") =>
          LET e == apply(tree0, changeset[1], backup_dir)
          IN  /\ e.st = result
              /\ e.err = error
              /\ e.fs = fs
              /\ result = "Ok" =>
                    InvokeRevert(fs, e.revert) = InvokeRevert(fs, Top.revert)

\* Change::apply has appended a value to a key of a config file and changed
\* the file, as the Engine's append_ini_entry does on the same tree
C27_Witness ==
    /\ result = "Ok"
    /\ reverted = "none"
    /\ changeset # <<>>
    /\ changeset[1].kind = "AppendIniEntry"
    /\ fs[Pc] # tree0[Pc]
    /\ apply(tree0, changeset[1], backup_dir).fs = fs
    /\ Len(history) = 2
    /\ history[1].change.kind = "RenameFile"

(***************************************************************************)
(* C28: restoring from a backup is idempotent.  A second call of the       *)
(* revert action that ReplaceInFile, SetIniEntry or AppendIniEntry         *)
(* returned, with the backup entry still there, returns Ok and leaves the  *)
(* target with the content the first call restored, the content from       *)
(* before the change.                                                      *)
(***************************************************************************)
\* the revert action called last
Called == invoked[Len(invoked)]

C28_RestoreIsIdempotent ==
    /\ (reverted = "Ok" /\ Called.change.kind \in EditKinds) =>
          /\ IsFile(fs, Called.revert.src)
          /\ fs[Called.change.path] = fs[Called.revert.src]
          /\ InvokeRevert(fs, Called.revert) = [ok |-> TRUE, fs |-> fs, err |-> NoError]
    /\ (reverted \in {"OkAgain", "ErrAgain"} /\ Called.change.kind \in EditKinds
            /\ IsFile(treeR, Called.revert.src)) =>
          /\ reverted = "OkAgain"
          /\ fs = treeR
          /\ fs[Called.change.path] = fs[Called.revert.src]

\* the action of a replacement that had changed P/a was called twice: the
\* first call changed P/a back, the second left everything as it was
C28_Witness ==
    /\ reverted = "OkAgain"
    /\ Called.change = ReplaceInFile(Pa, TextX, TextY)
    /\ changeset = <<Called.change>>
    /\ result = "Ok"
    /\ fs = treeR
    /\ fs[Pa].data = TextXYX
    /\ tree0[Pa].data = TextXYX
    /\ Len(invoked) = 1

(***************************************************************************)
(* C29: ReplaceInFile replaces every match in one pass.  The content       *)
(* written is the original content with every non-overlapping match of     *)
(* the pattern, taken left to right, replaced by the replacement: not only *)
(* the first match, and text put in by a replacement is not matched again. *)
(* When the pattern matches nowhere the content stays as it is and the     *)
(* apply still succeeds: the backup is written and a history entry is      *)
(* recorded.                                                               *)
(***************************************************************************)
\* the positions where a match of pat starts in content
MatchStarts(content, pat) == {i \in 1 .. Len(content) + 1 : MatchesAt(content, pat, i)}

\* the matches that are replaced: no two of them overlap, and a match left
\* out overlaps one that starts before it
IsLeftmostSelection(S, content, pat) ==
    /\ S \subseteq MatchStarts(content, pat)
    /\ \A i, j \in S : i < j => i + Len(pat) <= j
    /\ \A m \in MatchStarts(content, pat) \ S :
          \E s \in S : s < m /\ m < s + Len(pat)

\* the text that takes the place of position i of content when the matches
\* starting in S are replaced
Piece(S, content, pat, rep, i) ==
    (IF i \in S THEN rep ELSE <<>>)
    \o (IF i > Len(content) \/ \E s \in S : s <= i /\ i < s + Len(pat)
        THEN <<>> ELSE <<content[i]>>)

RECURSIVE Pieces(_, _, _, _, _)
Pieces(S, content, pat, rep, n) ==
    IF n = 0 THEN <<>>
    ELSE Pieces(S, content, pat, rep, n - 1) \o Piece(S, content, pat, rep, n)

Replaced(content, pat, rep) ==
    LET S == CHOOSE T \in SUBSET MatchStarts(content, pat) :
                 IsLeftmostSelection(T, content, pat)
    IN  Pieces(S, content, pat, rep, Len(content) + 1)

C29_ReplaceEveryMatch ==
    (pc = "idle" /\ changeset # <<>>) =>
        LET c == changeset[1]
            original == tree0[Pa].data
        IN  /\ result = "Ok"
            /\ \E T \in SUBSET MatchStarts(original, c.pat) :
                  IsLeftmostSelection(T, original, c.pat)
            /\ fs[Pa].data = Replaced(original, c.pat, c.rep)
            /\ MatchStarts(original, c.pat) = {} => fs[Pa] = tree0[Pa]
            /\ Len(history) = 1
            /\ Top.change = c
            /\ Top.revert = RestoreFromBackup(backup_dir \o <<Sha256Hex(original)>>, Pa)
            /\ fs[Top.revert.src] = tree0[Pa]

\* "xxx" with the pattern "x" and the replacement "xx": three matches were
\* replaced and none of the x put in was replaced again
C29_Witness ==
    /\ pc = "idle"
    /\ result = "Ok"
    /\ changeset = <<ReplaceInFile(Pa, <<"x">>, <<"x", "x">>)>>
    /\ tree0[Pa].data = <<"x", "x", "x">>
    /\ fs[Pa].data = <<"x", "x", "x", "x", "x", "x">>

(***************************************************************************)
(* C30: execute and revert terminate.  For a changeset of n changes        *)
(* execute performs at most n applies and then returns; revert invokes at  *)
(* most as many revert actions as history holds, the length of history     *)
(* goes down by one at every step, and revert returns Ok or the first      *)
(* error, never trying an action again.                                    *)
(***************************************************************************)
\* the Engine runs on once it was called; nothing makes the caller call
EngineStep ==
    ApplyRenameFile \/ ApplyBackup \/ ApplyEdit \/ ExecuteReturn \/ RevertStep \/ RevertReturn

\* one Engine, one call of execute and the calls of revert that follow it
LiveChanges ==
    {RenameFile(Pa, Pb), RenameFile(Pc, Pb), ReplaceInFile(Pa, TextX, TextY),
     ReplaceInFile(Pa, <<"(">>, TextY)}

LiveChangesets ==
    IF pc = "idle" /\ result = "none" THEN SeqsUpTo(LiveChanges, MaxChanges) ELSE {}

LiveNext ==
    \/ \E cs \in LiveChangesets : Execute(cs)
    \/ ApplyRenameFile
    \/ ApplyBackup
    \/ ApplyEdit
    \/ ExecuteReturn
    \/ RevertCall
    \/ RevertStep
    \/ RevertReturn

LiveSpec == Init /\ [][LiveNext]_vars /\ WF_vars(EngineStep)

\* what is left to do of the call in progress
Remaining ==
    IF pc \in {"apply", "edit"}
    THEN 2 * (Len(changeset) + 1 - next) + (IF pc = "apply" THEN 1 ELSE 0)
    ELSE IF pc = "revert" THEN Len(history) + 1
    ELSE 0

C30_ExecuteAndRevertTerminate ==
    /\ [](/\ Len(attempted) <= Len(changeset)
          /\ attempted = FirstN(Len(attempted))
          /\ Len(invoked) <= Len(histR)
          /\ reverted # "none" => Len(invoked) + Len(history) = Len(histR))
    /\ [][(pc \in {"apply", "edit", "revert"}) => Remaining' < Remaining]_vars
    /\ [][(pc = "revert" /\ pc' = "revert") => Len(history') = Len(history) - 1]_vars
    /\ [][(pc = "revert" /\ pc' = "idle") =>
            \/ reverted' = "Ok" /\ history = <<>> /\ history' = <<>>
            \/ reverted' = "Err" /\ ~InvokeRevert(fs, Top.revert).ok
                  /\ history' = Front(history)]_vars
    /\ (pc \in {"apply", "edit"}) ~> (pc \in {"idle", "aborted"})
    /\ (pc = "revert") ~> (pc = "idle" /\ reverted \in {"Ok", "Err"})

\* execute has applied all three changes of a changeset and returned, and
\* revert has gone through the three entries and returned
C30_Witness ==
    /\ pc = "idle"
    /\ reverted = "Ok"
    /\ result = "Ok"
    /\ Len(changeset) = MaxChanges
    /\ attempted = FirstN(MaxChanges)
    /\ Len(invoked) = MaxChanges
    /\ Len(histR) = MaxChanges
    /\ history = <<>>

=============================================================================
